---- MODULE Spec2Model ----
(***************************************************************************)
(* screenshot-beautify: the composition pipeline (beautify.ts, both its     *)
(* shadow and its shadow-less variant), the background selection            *)
(* (background.ts, presets.ts) and the three command-line modes that drive  *)
(* it (index.ts: file, watch; tray.ts: tray).                               *)
(*                                                                         *)
(* Numbers of the layout that can be half a pixel (shadowPadding / 2,       *)
(* shadowBlur / 2) are kept doubled: a name ending in 2 holds twice the     *)
(* value of the source's variable, and MathRound takes such a doubled       *)
(* value.                                                                   *)
(***************************************************************************)
EXTENDS Integers, Sequences, FiniteSets, TLC

VARIABLES
  catalog,        \* presets.ts: the keys of the GRADIENT_PRESETS object, in order
  listed,         \* what the calls of listPresets made so far returned
  analysis,       \* the run of extractDominantColor on the sampled pixels
  gradient,       \* the gradient a direct call of createPresetBackground built
  conversion,     \* a colour taken through rgbToHsl and back through hslToRgb
  cfg,            \* the build (variant), the mode and its command line
  jobs,           \* per source file: the run of processFile / beautify on it
  orig,           \* per source file: "absent", "present" or "deleted"
  out,            \* per destination path: the file there
  watcher,        \* tray.ts / index.ts: `watcher` is not null
  liveWatchers,   \* the number of chokidar watchers created and not closed
  trayReady,      \* tray.ts: trayReady
  processedCount, \* tray.ts: processedCount
  exit,           \* "running", or the exit status "exit0" / "exit1"
  log             \* per source file: what the console reported about it

vars == <<catalog, listed, analysis, gradient, conversion, cfg,
         jobs, orig, out, watcher, liveWatchers, trayReady,
         processedCount, exit, log>>

(***************************************************************************)
(* JavaScript numbers as the options carry them: undefined, NaN, or an      *)
(* integer.                                                                 *)
(***************************************************************************)
Undef == [k |-> "undef", v |-> 0]
NaN == [k |-> "nan", v |-> 0]
Num(n) == [k |-> "num", v |-> n]
IsNum(x) == x.k = "num"

\* `= dflt` in a destructuring pattern: the default applies to undefined only.
Default(x, dflt) == IF x.k = "undef" THEN Num(dflt) ELSE x

\* `x || dflt` on a number: the default replaces every falsy value
\* (undefined, NaN and 0).
OrDefault(x, dflt) == IF x.k = "num" /\ x.v # 0 THEN x ELSE Num(dflt)

Abs(n) == IF n < 0 THEN -n ELSE n

\* MathRound, were a half rounded to the even neighbour
MathRoundMutHalfEven(x2) ==
  IF x2 % 2 = 0 THEN x2 \div 2
  ELSE IF ((x2 - 1) \div 2) % 2 = 0 THEN (x2 - 1) \div 2 ELSE (x2 + 1) \div 2

\* Math.round of x2 / 2: halves round towards +Infinity.
MathRound(x2) == (x2 + 1) \div 2

\* a number that is not an integer is kept as the exact fraction n / d
RECURSIVE GCD(_, _)
GCD(a, b) == IF b = 0 THEN a ELSE GCD(b, a % b)

Frac(n, d) == LET g == GCD(n, d) IN [n |-> n \div g, d |-> d \div g]
FracAdd(a, b) == Frac(a.n * b.d + b.n * a.d, a.d * b.d)
\* a < k, for an integer k
FracBelow(a, k) == a.n < k * a.d

\* exact arithmetic on fractions (denominators are positive); sums go over
\* the least common denominator and products are reduced crosswise
FracOf(k) == [n |-> k, d |-> 1]
FracPlus(a, b) ==
  LET g == GCD(a.d, b.d)
  IN Frac(a.n * (b.d \div g) + b.n * (a.d \div g), (a.d \div g) * b.d)
FracMinus(a, b) == FracPlus(a, [n |-> 0 - b.n, d |-> b.d])
FracTimes(a, b) ==
  LET g1 == GCD(a.n, b.d)
      g2 == GCD(b.n, a.d)
  IN Frac((a.n \div g1) * (b.n \div g2), (a.d \div g2) * (b.d \div g1))
FracLess(a, b) ==
  LET g == GCD(a.d, b.d) IN a.n * (b.d \div g) < b.n * (a.d \div g)
FracMin(a, b) == IF FracLess(b, a) THEN b ELSE a
FracMax(a, b) == IF FracLess(a, b) THEN b ELSE a
\* Math.round of a fraction
MathRoundFrac(a) == (2 * a.n + a.d) \div (2 * a.d)

(***************************************************************************)
(* parseInt(text, 10) on a sequence of characters.                          *)
(***************************************************************************)
Digits == <<"0", "1", "2", "3", "4", "5", "6", "7", "8", "9">>
IsDigit(c) == \E i \in 1..10 : Digits[i] = c
DigitVal(c) == (CHOOSE i \in 1..10 : Digits[i] = c) - 1

RECURSIVE DigitPrefix(_, _)
\* value of the longest run of digits at the head of s, started from acc
DigitPrefix(s, acc) ==
  IF s = <<>> \/ ~IsDigit(Head(s)) THEN acc
  ELSE DigitPrefix(Tail(s), acc * 10 + DigitVal(Head(s)))

RECURSIVE SkipSpace(_)
SkipSpace(s) == IF s # <<>> /\ Head(s) = " " THEN SkipSpace(Tail(s)) ELSE s

parseInt(text) ==
  LET t == SkipSpace(text)
      neg == t # <<>> /\ Head(t) = "-"
      body == IF t # <<>> /\ Head(t) \in {"-", "+"} THEN Tail(t) ELSE t
  IN IF body = <<>> \/ ~IsDigit(Head(body)) THEN NaN
     ELSE Num((IF neg THEN -1 ELSE 1) * DigitPrefix(body, 0))

(***************************************************************************)
(* File names.  A file is its stem (the base name without the extension,    *)
(* a sequence of name parts) and its extension.                             *)
(***************************************************************************)
IMAGE_EXTENSIONS == {".png", ".jpg", ".jpeg", ".webp", ".gif"}

toLowerCase(ext) ==
  CASE ext = ".PNG" -> ".png"
    [] ext = ".JPG" -> ".jpg"
    [] OTHER -> ext

isImageFile(f) == toLowerCase(f.ext) \in IMAGE_EXTENSIONS

\* isAlreadyBeautified, were it to ask whether "_beautified" is the whole name
isAlreadyBeautifiedMutWholeName(f) == f.stem = <<"_beautified">>

\* basename(filePath).includes("_beautified")
isAlreadyBeautified(f) == \E i \in 1..Len(f.stem) : f.stem[i] = "_beautified"

\* join(outputPath, `${fileName}_beautified.png`)
beautifiedPath(f) == [dir |-> "out", stem |-> Append(f.stem, "_beautified"), ext |-> ".png"]

(***************************************************************************)
(* The preset catalog.  PresetKeys are the keys of the object literal in    *)
(* their order; `catalog` is the object as the running process holds it.    *)
(***************************************************************************)
PresetKeys ==
  <<"sunset", "sunrise", "peach", "ocean", "sky", "northern", "charcoal",
    "midnight", "space", "neon", "fire", "aurora", "lavender", "mint", "rose">>

GRADIENT_PRESETS == {catalog[i] : i \in 1..Len(catalog)}

\* Names every JavaScript object inherits: GRADIENT_PRESETS[name] is truthy
\* for them although the catalog has no such preset.
InheritedNames == {"constructor"}

\* the truthiness of GRADIENT_PRESETS[name]
PresetLookupTruthy(name) == name \in GRADIENT_PRESETS \/ name \in InheritedNames

listPresets == <<"auto">> \o catalog

\* the preset the caller of the library registers under the name "custom"
\* in the exported GRADIENT_PRESETS object; its angle is the caller's
CustomPreset == "custom"
CustomColors == <<"#000000", "#ffffff">>

\* GRADIENT_PRESETS[name] for a name of the catalog
PresetEntry(name) ==
  CASE name = "sunset" ->
         [colors |-> <<"#ff9a9e", "#fecfef", "#fecfef", "#fad0c4">>, angle |-> Num(135)]
    [] name = "sunrise" -> [colors |-> <<"#f093fb", "#f5576c">>, angle |-> Num(135)]
    [] name = "peach" -> [colors |-> <<"#ffecd2", "#fcb69f">>, angle |-> Num(135)]
    [] name = "ocean" -> [colors |-> <<"#667eea", "#764ba2">>, angle |-> Num(135)]
    [] name = "sky" -> [colors |-> <<"#a1c4fd", "#c2e9fb">>, angle |-> Num(135)]
    [] name = "northern" -> [colors |-> <<"#43e97b", "#38f9d7">>, angle |-> Num(135)]
    [] name = "charcoal" -> [colors |-> <<"#2d3436", "#636e72">>, angle |-> Num(135)]
    [] name = "midnight" -> [colors |-> <<"#232526", "#414345">>, angle |-> Num(135)]
    [] name = "space" -> [colors |-> <<"#0f0c29", "#302b63", "#24243e">>, angle |-> Num(135)]
    [] name = "neon" -> [colors |-> <<"#fc00ff", "#00dbde">>, angle |-> Num(135)]
    [] name = "fire" -> [colors |-> <<"#f12711", "#f5af19">>, angle |-> Num(135)]
    [] name = "aurora" -> [colors |-> <<"#00c6fb", "#005bea">>, angle |-> Num(135)]
    [] name = "lavender" -> [colors |-> <<"#e0c3fc", "#8ec5fc">>, angle |-> Num(135)]
    [] name = "mint" -> [colors |-> <<"#d4fc79", "#96e6a1">>, angle |-> Num(135)]
    [] name = "rose" -> [colors |-> <<"#eecda3", "#ef629f">>, angle |-> Num(135)]
    [] name = CustomPreset -> [colors |-> CustomColors, angle |-> cfg.customAngle]

\* `angle = 135` in the destructuring of the preset
DefaultAngle == 135

\* lengths along the axis are kept in millionths of a percent
Micro == 1000000

\* Math.cos(angleRad) * 50 and Math.sin(angleRad) * 50 in millionths, to the
\* nearest millionth, for the angles the model draws
Cos50(angle) ==
  CASE angle = 0 -> 50000000
    [] angle = 45 -> 35355339
    [] angle = 60 -> 25000000
    [] angle = 90 -> 0
    [] angle = 135 -> -35355339
    [] angle = 180 -> -50000000
    [] angle = 270 -> 0
Sin50(angle) ==
  CASE angle = 0 -> 0
    [] angle = 45 -> 35355339
    [] angle = 60 -> 43301270
    [] angle = 90 -> 50000000
    [] angle = 135 -> 35355339
    [] angle = 180 -> 0
    [] angle = 270 -> -50000000

\* the axis, were its ends truncated to whole percents
gradientAxisMutTruncates(angle) ==
  LET a == Default(angle, DefaultAngle).v
  IN [x1 |-> (50 * Micro - Cos50(a)) \div Micro,
      y1 |-> (50 * Micro - Sin50(a)) \div Micro,
      x2 |-> (50 * Micro + Cos50(a)) \div Micro,
      y2 |-> (50 * Micro + Sin50(a)) \div Micro]

\* x1, y1, x2, y2 of the linearGradient, in percent
gradientAxis(angle) ==
  LET a == Default(angle, DefaultAngle).v
  IN [x1 |-> MathRoundFrac([n |-> 50 * Micro - Cos50(a), d |-> Micro]),
      y1 |-> MathRoundFrac([n |-> 50 * Micro - Sin50(a), d |-> Micro]),
      x2 |-> MathRoundFrac([n |-> 50 * Micro + Cos50(a), d |-> Micro]),
      y2 |-> MathRoundFrac([n |-> 50 * Micro + Sin50(a), d |-> Micro])]

\* the gradient stops: (i / (colors.length - 1)) * 100 is 0 / 0 for one colour
gradientStops(colors) ==
  [i \in 1..Len(colors) |->
     [offset |-> IF Len(colors) = 1 THEN NaN ELSE Frac(100 * (i - 1), Len(colors) - 1),
      color |-> colors[i]]]

NoAxis == [x1 |-> 0, y1 |-> 0, x2 |-> 0, y2 |-> 0]

\* createPresetBackground up to its first await: "ok" when the gradient is
\* built, otherwise the error it throws.  An inherited name passes the
\* `!preset` test and fails on `colors.map` of an undefined `colors`.
createPresetBackground(presetName) ==
  IF presetName \in GRADIENT_PRESETS
  THEN [result |-> "ok", lists |-> <<>>,
        axis |-> gradientAxis(PresetEntry(presetName).angle),
        stops |-> gradientStops(PresetEntry(presetName).colors)]
  ELSE IF presetName \in InheritedNames
  THEN [result |-> "TypeError", lists |-> <<>>, axis |-> gradientAxis(Undef), stops |-> <<>>]
  ELSE [result |-> "UnknownPreset", lists |-> listPresets, axis |-> NoAxis, stops |-> <<>>]

(***************************************************************************)
(* extractDominantColor.  A colour is [r, g, b]; a saturation is kept as    *)
(* the exact fraction n / d of one percent-point scale (n / d = s * 100).   *)
(***************************************************************************)
Max3(a, b, c) == IF a >= b /\ a >= c THEN a ELSE IF b >= c THEN b ELSE c
Min3(a, b, c) == IF a <= b /\ a <= c THEN a ELSE IF b <= c THEN b ELSE c

\* rgbToHsl(r, g, b).s: with max and min taken over the channels / 255,
\* l > 0.5 is max + min > 255
rgbToHslS(c) ==
  LET max == Max3(c.r, c.g, c.b)
      min == Min3(c.r, c.g, c.b)
  IN IF max = min THEN Frac(0, 1)
     ELSE IF max + min > 255 THEN Frac(100 * (max - min), 510 - max - min)
     ELSE Frac(100 * (max - min), max + min)

\* rgbToHsl(r, g, b).h in degrees: the switch takes the first channel that
\* equals max, in the order r, g, b
rgbToHslH(c) ==
  LET max == Max3(c.r, c.g, c.b)
      min == Min3(c.r, c.g, c.b)
      d == max - min
  IN IF max = min THEN FracOf(0)
     ELSE IF max = c.r THEN Frac(60 * ((c.g - c.b) + (IF c.g < c.b THEN 6 * d ELSE 0)), d)
     ELSE IF max = c.g THEN Frac(60 * ((c.b - c.r) + 2 * d), d)
     ELSE Frac(60 * ((c.r - c.g) + 4 * d), d)

\* rgbToHsl(r, g, b).l in percent
rgbToHslL(c) == Frac(100 * (Max3(c.r, c.g, c.b) + Min3(c.r, c.g, c.b)), 510)

\* rgbToHsl: h in degrees, s and l in percent
rgbToHsl(c) == [h |-> rgbToHslH(c), s |-> rgbToHslS(c), l |-> rgbToHslL(c)]

\* hue2rgb, were a negative t not wrapped into 0..1
hue2rgbMutNoWrap(p, q, t0) ==
  LET t == IF FracLess(FracOf(1), t0) THEN FracMinus(t0, FracOf(1)) ELSE t0
  IN IF FracLess(t, Frac(1, 6))
     THEN FracPlus(p, FracTimes(FracTimes(FracMinus(q, p), FracOf(6)), t))
     ELSE IF FracLess(t, Frac(1, 2)) THEN q
     ELSE IF FracLess(t, Frac(2, 3))
     THEN FracPlus(p, FracTimes(FracTimes(FracMinus(q, p), FracMinus(Frac(2, 3), t)),
                                FracOf(6)))
     ELSE p

\* hue2rgb of hslToRgb
hue2rgb(p, q, t0) ==
  LET t1 == IF FracLess(t0, FracOf(0)) THEN FracPlus(t0, FracOf(1)) ELSE t0
      t == IF FracLess(FracOf(1), t1) THEN FracMinus(t1, FracOf(1)) ELSE t1
  IN IF FracLess(t, Frac(1, 6))
     THEN FracPlus(p, FracTimes(FracTimes(FracMinus(q, p), FracOf(6)), t))
     ELSE IF FracLess(t, Frac(1, 2)) THEN q
     ELSE IF FracLess(t, Frac(2, 3))
     THEN FracPlus(p, FracTimes(FracTimes(FracMinus(q, p), FracMinus(Frac(2, 3), t)),
                                FracOf(6)))
     ELSE p

\* hslToRgb(h, s, l) of a triple in degrees and percent
hslToRgb(hsl) ==
  LET h == FracTimes(hsl.h, Frac(1, 360))
      s == FracTimes(hsl.s, Frac(1, 100))
      l == FracTimes(hsl.l, Frac(1, 100))
      q == IF FracLess(l, Frac(1, 2)) THEN FracTimes(l, FracPlus(FracOf(1), s))
           ELSE FracMinus(FracPlus(l, s), FracTimes(l, s))
      p == FracMinus(FracTimes(FracOf(2), l), q)
      r == IF s.n = 0 THEN l ELSE hue2rgb(p, q, FracPlus(h, Frac(1, 3)))
      g == IF s.n = 0 THEN l ELSE hue2rgb(p, q, h)
      b == IF s.n = 0 THEN l ELSE hue2rgb(p, q, FracMinus(h, Frac(1, 3)))
  IN [r |-> MathRoundFrac(FracTimes(r, FracOf(255))),
      g |-> MathRoundFrac(FracTimes(g, FracOf(255))),
      b |-> MathRoundFrac(FracTimes(b, FracOf(255)))]

\* Number.prototype.toString(16), as the sequence of its characters
HexDigits == <<"0", "1", "2", "3", "4", "5", "6", "7", "8", "9", "a", "b", "c", "d", "e", "f">>
RECURSIVE toString16(_)
toString16(x) ==
  IF x < 0 THEN <<"-">> \o toString16(0 - x)
  ELSE IF x < 16 THEN <<HexDigits[x + 1]>>
  ELSE toString16(x \div 16) \o <<HexDigits[(x % 16) + 1]>>

\* padStart(2, "0")
padStart2(str) == IF Len(str) < 2 THEN <<"0">> \o str ELSE str

\* rgbToHex(r, g, b)
rgbToHex(c) ==
  <<"#">> \o padStart2(toString16(c.r)) \o padStart2(toString16(c.g))
    \o padStart2(toString16(c.b))

\* Math.round(v / 32) * 32
Quantize(v) == ((v + 16) \div 32) * 32

\* the position of the bucket with this key in colorCounts, or 0
BucketAt(colorCounts, key) ==
  LET at == {i \in 1..Len(colorCounts) : colorCounts[i].key = key}
  IN IF at = {} THEN 0 ELSE CHOOSE i \in at : TRUE

\* the for loop over data, from pixel i on
RECURSIVE CountPixels(_, _, _)
CountPixels(data, i, st) ==
  IF i > Len(data) THEN st
  ELSE LET c == data[i]
           key == <<Quantize(c.r), Quantize(c.g), Quantize(c.b)>>
           existing == BucketAt(st.colorCounts, key)
       IN CountPixels(data, i + 1,
            [totalSaturation |-> FracAdd(st.totalSaturation, rgbToHslS(c)),
             pixelCount |-> st.pixelCount + 1,
             colorCounts |->
               IF existing # 0
               THEN [st.colorCounts EXCEPT ![existing].count = @ + 1]
               ELSE Append(st.colorCounts,
                           [key |-> key, count |-> 1,
                            r |-> key[1], g |-> key[2], b |-> key[3]])])

\* sorted[0], were the sort ascending
DominantMutLeast(colorCounts) ==
  LET i == CHOOSE i \in 1..Len(colorCounts) :
             /\ \A j \in 1..Len(colorCounts) : colorCounts[j].count >= colorCounts[i].count
             /\ \A j \in 1..(i - 1) : colorCounts[j].count > colorCounts[i].count
  IN colorCounts[i]

\* sorted[0] after the (stable) sort by descending count: the first inserted
\* among the buckets of the highest count
Dominant(colorCounts) ==
  LET i == CHOOSE i \in 1..Len(colorCounts) :
             /\ \A j \in 1..Len(colorCounts) : colorCounts[j].count <= colorCounts[i].count
             /\ \A j \in 1..(i - 1) : colorCounts[j].count < colorCounts[i].count
  IN colorCounts[i]

\* isNeutral, were the three signals all required
isNeutralMutAll(avgSaturation, s, rgbRange) ==
  FracBelow(avgSaturation, 25) /\ FracBelow(s, 15) /\ rgbRange < 40

\* avgSaturation < 25 || hsl.s < 15 || isGreyish
isNeutral(avgSaturation, s, rgbRange) ==
  FracBelow(avgSaturation, 25) \/ FracBelow(s, 15) \/ rgbRange < 40

\* a % 360 of a fraction that is not negative
FracMod360(a) == Frac(a.n - 360 * a.d * (a.n \div (360 * a.d)), a.d)

\* color1Hsl, were the cap of the neutral branch applied to both branches
color1HslMutNeutralCap(hsl, neutral) ==
  [h |-> hsl.h,
   s |-> IF neutral THEN FracOf(0) ELSE FracMin(FracPlus(hsl.s, FracOf(5)), FracOf(60)),
   l |-> FracMin(FracPlus(hsl.l, FracOf(8)), FracOf(55))]

\* color1Hsl of the branch taken
color1Hsl(hsl, neutral) ==
  IF neutral
  THEN [h |-> hsl.h, s |-> FracOf(0), l |-> FracMin(FracPlus(hsl.l, FracOf(8)), FracOf(55))]
  ELSE [h |-> hsl.h, s |-> FracMin(FracPlus(hsl.s, FracOf(5)), FracOf(60)),
        l |-> FracMin(FracPlus(hsl.l, FracOf(10)), FracOf(60))]

\* color2Hsl of the branch taken
color2Hsl(hsl, neutral) ==
  IF neutral
  THEN [h |-> hsl.h, s |-> FracOf(0), l |-> FracMax(FracMinus(hsl.l, FracOf(5)), FracOf(20))]
  ELSE [h |-> FracMod360(FracPlus(hsl.h, FracOf(15))), s |-> hsl.s,
        l |-> FracMax(FracMinus(hsl.l, FracOf(5)), FracOf(25))]

\* extractDominantColor after its await
extractDominantColor(data) ==
  LET st == CountPixels(data, 1, [totalSaturation |-> Frac(0, 1), pixelCount |-> 0,
                                  colorCounts |-> <<>>])
      dominant == Dominant(st.colorCounts)
      hsl == rgbToHsl(dominant)
      s == hsl.s
      avgSaturation == Frac(st.totalSaturation.n, st.totalSaturation.d * st.pixelCount)
      rgbRange == Max3(dominant.r, dominant.g, dominant.b)
                    - Min3(dominant.r, dominant.g, dominant.b)
      neutral == isNeutral(avgSaturation, s, rgbRange)
      c1 == color1Hsl(hsl, neutral)
      c2 == color2Hsl(hsl, neutral)
      color1 == hslToRgb(c1)
      color2 == hslToRgb(c2)
  IN [pc |-> "done", data |-> data, colorCounts |-> st.colorCounts,
      pixelCount |-> st.pixelCount, dominant |-> dominant, s |-> s,
      avgSaturation |-> avgSaturation, rgbRange |-> rgbRange,
      isNeutral |-> neutral, hsl |-> hsl, color1Hsl |-> c1, color2Hsl |-> c2,
      color1 |-> color1, color2 |-> color2,
      result |-> <<rgbToHex(color1), rgbToHex(color2)>>]

(***************************************************************************)
(* createBackground: which of its four branches builds the background.      *)
(* The empty string stands for an option that is undefined (both are        *)
(* falsy).                                                                  *)
(***************************************************************************)
gradientStartDefault == "#2d3436"
gradientEndDefault == "#636e72"

BackgroundBranch(imagePath, preset, sourceImagePath) ==
  IF imagePath # "" THEN "image"
  ELSE IF preset = "auto" /\ sourceImagePath # "" THEN "auto"
  ELSE IF preset # "" /\ PresetLookupTruthy(preset) THEN "preset"
  ELSE "default"

\* the two colours of the gradient a branch paints ("extracted" pairs stand
\* for the result of extractDominantColor on the analysed image)
BackgroundColours(branch, preset, start, end) ==
  CASE branch = "default" -> <<start, end>>
    [] branch = "auto" -> <<"extracted1", "extracted2">>
    [] branch = "preset" -> <<preset, preset>>
    [] OTHER -> <<"image", "image">>

(***************************************************************************)
(* beautify: the defaults of its options and its layout arithmetic.         *)
(***************************************************************************)
DefaultPadding == 80
ShadowCornerRadius == 10
ShadowTitleBarHeight == 32
DefaultShadowBlur == 30
DefaultShadowOffsetX == 0
DefaultShadowOffsetY == 20
FlatCornerRadius == 12
FlatTitleBarHeight == 40

\* the destructuring of `options` at the head of beautify
Destructure(variant, options) ==
  [padding |-> Default(options.padding, DefaultPadding),
   cornerRadius |->
     Default(options.cornerRadius,
             IF variant = "shadow" THEN ShadowCornerRadius ELSE FlatCornerRadius).v,
   titleBarHeight |->
     Default(options.titleBarHeight,
             IF variant = "shadow" THEN ShadowTitleBarHeight ELSE FlatTitleBarHeight).v,
   shadowBlur |-> Default(options.shadowBlur, DefaultShadowBlur).v,
   shadowOffsetX |-> Default(options.shadowOffsetX, DefaultShadowOffsetX).v,
   shadowOffsetY |-> Default(options.shadowOffsetY, DefaultShadowOffsetY).v,
   backgroundImage |-> options.backgroundImage,
   backgroundPreset |-> options.backgroundPreset,
   gradientStart |-> gradientStartDefault,
   gradientEnd |-> gradientEndDefault]

ShadowPaddingMutNoOffset(o) == o.shadowBlur * 2

\* const shadowPadding = shadowBlur * 2 + Math.abs(shadowOffsetY)
ShadowPadding(o) == o.shadowBlur * 2 + Abs(o.shadowOffsetY)

\* The layout of the shadow variant.  nan says that padding is NaN, and then
\* every number derived from it (the canvas size and all offsets) is NaN and
\* its field holds 0.
LayoutShadow(dims, o) ==
  LET p == IF IsNum(o.padding) THEN o.padding.v ELSE 0
      framedWidth == dims.w
      framedHeight == dims.h + o.titleBarHeight
      totalWidth == framedWidth + p * 2
      totalHeight == framedHeight + p * 2
      shadowPadding == ShadowPadding(o)
      frameX2 == 2 * p + shadowPadding
      frameY2 == 2 * p + shadowPadding
      z(n) == IF IsNum(o.padding) THEN n ELSE 0
  IN [nan |-> ~IsNum(o.padding),
      framedWidth |-> framedWidth,
      framedHeight |-> framedHeight,
      shadowPadding |-> shadowPadding,
      canvasWidth |-> z(totalWidth + shadowPadding),
      canvasHeight |-> z(totalHeight + shadowPadding),
      frameX2 |-> z(frameX2),
      frameY2 |-> z(frameY2),
      shadowX2 |-> z(frameX2 + 2 * o.shadowOffsetX - o.shadowBlur),
      shadowY2 |-> z(frameY2 + 2 * o.shadowOffsetY - o.shadowBlur),
      screenshotX2 |-> z(frameX2),
      screenshotY2 |-> z(frameY2 + 2 * o.titleBarHeight)]

\* The layout of the shadow-less variant: no shadow margin, no shadow offset
\* (the shadow fields hold 0).
LayoutFlat(dims, o) ==
  LET p == IF IsNum(o.padding) THEN o.padding.v ELSE 0
      framedWidth == dims.w
      framedHeight == dims.h + o.titleBarHeight
      z(n) == IF IsNum(o.padding) THEN n ELSE 0
  IN [nan |-> ~IsNum(o.padding),
      framedWidth |-> framedWidth,
      framedHeight |-> framedHeight,
      shadowPadding |-> 0,
      canvasWidth |-> z(framedWidth + p * 2),
      canvasHeight |-> z(framedHeight + p * 2),
      frameX2 |-> z(2 * p),
      frameY2 |-> z(2 * p),
      shadowX2 |-> 0,
      shadowY2 |-> 0,
      screenshotX2 |-> z(2 * p),
      screenshotY2 |-> z(2 * p + 2 * o.titleBarHeight)]

Layout(variant, dims, o) ==
  IF variant = "shadow" THEN LayoutShadow(dims, o) ELSE LayoutFlat(dims, o)

\* createShadow: the size of the shadow layer
createShadow(width, height, blur) == [w |-> width + blur, h |-> height + blur]

CompositeMutShadowOnTop(variant) ==
  IF variant = "shadow" THEN <<"frame", "screenshot", "shadow">>
  ELSE <<"frame", "screenshot">>

\* the array handed to composite(), back to front
CompositeOrder(variant) ==
  IF variant = "shadow" THEN <<"shadow", "frame", "screenshot">>
  ELSE <<"frame", "screenshot">>

\* where composite() places each layer: Math.round at the point of placement
Placement(variant, plan) ==
  [frame |-> [left |-> MathRound(plan.frameX2), top |-> MathRound(plan.frameY2)],
   screenshot |-> [left |-> MathRound(plan.screenshotX2),
                   top |-> MathRound(plan.screenshotY2)],
   shadow |-> [left |-> MathRound(plan.shadowX2), top |-> MathRound(plan.shadowY2)]]

(***************************************************************************)
(* cornerMask: the SVG beautify draws to round the screenshot.  A pixel     *)
(* <<x, y>> is taken at its centre, in half-pixel units (2x+1, 2y+1); it is *)
(* opaque when a white shape covers its centre.                             *)
(***************************************************************************)
Min(a, b) == IF a < b THEN a ELSE b

\* the mask of a screenshot: width, height, rx = ry
cornerMask(imgWidth, imgHeight, cornerRadius) ==
  [w |-> imgWidth, h |-> imgHeight, r |-> cornerRadius]

\* <rect x=0 y=0 width=w height=h rx=r ry=r>: SVG clamps rx to w/2, ry to h/2
InRoundedRect(m, x, y) ==
  LET px == 2 * x + 1
      py == 2 * y + 1
      rx2 == Min(2 * m.r, m.w)
      ry2 == Min(2 * m.r, m.h)
      dx == IF px < rx2 THEN rx2 - px
            ELSE IF px > 2 * m.w - rx2 THEN px - (2 * m.w - rx2) ELSE 0
      dy == IF py < ry2 THEN ry2 - py
            ELSE IF py > 2 * m.h - ry2 THEN py - (2 * m.h - ry2) ELSE 0
  IN dx = 0 \/ dy = 0 \/ dx * dx * ry2 * ry2 + dy * dy * rx2 * rx2 <= rx2 * rx2 * ry2 * ry2

\* <rect x=x0 y=0 width=r height=r>
InTopSquare(m, x0, x, y) ==
  /\ 2 * x0 < 2 * x + 1 /\ 2 * x + 1 < 2 * (x0 + m.r)
  /\ 2 * y + 1 < 2 * m.r

\* MaskOpaque, were all four corners left rounded
MaskOpaqueMutAllRounded(m, x, y) ==
  /\ x \in 0..(m.w - 1) /\ y \in 0..(m.h - 1)
  /\ InRoundedRect(m, x, y)

\* the alpha of the mask at pixel <<x, y>>
MaskOpaque(m, x, y) ==
  /\ x \in 0..(m.w - 1) /\ y \in 0..(m.h - 1)
  /\ \/ InRoundedRect(m, x, y)
     \/ InTopSquare(m, 0, x, y)
     \/ InTopSquare(m, m.w - m.r, x, y)

\* blend "dest-in": the destination is kept where the input is opaque
destIn(dest, input) == dest /\ input

\* roundedScreenshot at <<x, y>>: ensureAlpha() then the mask blended dest-in
roundedScreenshot(m, screenshotOpaque, x, y) ==
  destIn(screenshotOpaque, MaskOpaque(m, x, y))

(***************************************************************************)
(* The bounds of the model.                                                 *)
(***************************************************************************)
\* direct calls of beautify take their sizes and offsets from -MaxGeom..MaxGeom
MaxGeom == 2
\* the number of files that appear in the watched directory in one run
MaxAdded == 2
\* a program calls listPresets at most MaxListings times
MaxListings == 2
\* the pixels extractDominantColor samples (50 x 50 in the source)
MaxPixels == 3
\* the channels of the colours taken through the conversions are spread
\* over 0..255 in MaxShade steps
MaxShade == 3

(***************************************************************************)
(* The files of the source directory and the command lines.                 *)
(***************************************************************************)
CliFiles ==
  {[stem |-> <<"shot">>, ext |-> ".png"],
   [stem |-> <<"pic">>, ext |-> ".JPG"],
   [stem |-> <<"shot", "_beautified">>, ext |-> ".png"],
   [stem |-> <<"notes">>, ext |-> ".txt"]}

\* a second screenshot of the same base name
ShotJpg == [stem |-> <<"shot">>, ext |-> ".jpg"]

\* every file the source directory can hold
SrcFiles == CliFiles \cup {ShotJpg}

\* what sharp's metadata() can report for a readable image
NoDims == [w |-> 0, h |-> 0]
CliDims == {[w |-> 1000, h |-> 700], NoDims}
FileDims == CliDims \cup {[w |-> 100, h |-> 100]}
ApiDims == {[w |-> 1000, h |-> 700], [w |-> 3, h |-> 2], NoDims}

\* the colours of the sampled pixels: #808080, pure red, a dull rose, a
\* dark brown, a slate grey and white
Grey808080 == [r |-> 128, g |-> 128, b |-> 128]
Palette ==
  {Grey808080, [r |-> 255, g |-> 0, b |-> 0], [r |-> 160, g |-> 96, b |-> 96],
   [r |-> 96, g |-> 64, b |-> 64], [r |-> 100, g |-> 110, b |-> 120],
   [r |-> 255, g |-> 255, b |-> 255]}
\* what sharp's resize().raw().toBuffer() can hand back
Images == UNION {[1..n -> Palette] : n \in 1..MaxPixels}

Omitted == [given |-> FALSE, text |-> <<>>]
Given(text) == [given |-> TRUE, text |-> text]
PaddingArgs == {Omitted, Given(<<"0">>), Given(<<"-", "1", "0">>), Given(<<"a", "b", "c">>)}
PresetArgs == {"", "auto", "sunset", "nonexistent", "constructor"}
BackgroundArgs == {"", "wallpaper.jpg"}
OutputArgs == {"", "result.png"}

\* commander's value of an option declared with a default
OptionValue(arg, dflt) == IF arg.given THEN arg.text ELSE dflt

NoOptions ==
  [padding |-> Undef, cornerRadius |-> Undef, titleBarHeight |-> Undef,
   shadowBlur |-> Undef, shadowOffsetX |-> Undef, shadowOffsetY |-> Undef,
   backgroundImage |-> "", backgroundPreset |-> ""]

GeomRange == {Undef} \cup {Num(n) : n \in (-MaxGeom)..MaxGeom}
SizeRange == {Undef} \cup {Num(n) : n \in 0..MaxGeom}

\* the option records of the direct calls of beautify
ApiOptions(variant) ==
  IF variant = "shadow"
  THEN {[NoOptions EXCEPT !.padding = p, !.titleBarHeight = t, !.shadowBlur = b,
                          !.shadowOffsetX = x, !.shadowOffsetY = y] :
          p \in {Undef} \cup {Num(n) : n \in (-1)..MaxGeom},
          t \in {Undef, Num(1)}, b \in SizeRange,
          x \in GeomRange \ {Num(0)}, y \in GeomRange}
  ELSE {[NoOptions EXCEPT !.padding = p, !.titleBarHeight = t, !.cornerRadius = c] :
          p \in {Undef} \cup {Num(n) : n \in (-1)..MaxGeom},
          t \in {Undef, Num(0), Num(1)},
          c \in {Undef} \cup {Num(n) : n \in 0..(2 * MaxGeom)}}
         \cup {[NoOptions EXCEPT !.backgroundPreset = pr] :
                 pr \in {"sunset", "nonexistent", "constructor"}}

NoPlan ==
  [nan |-> FALSE, framedWidth |-> 0, framedHeight |-> 0, shadowPadding |-> 0,
   canvasWidth |-> 0, canvasHeight |-> 0, frameX2 |-> 0, frameY2 |-> 0,
   shadowX2 |-> 0, shadowY2 |-> 0, screenshotX2 |-> 0, screenshotY2 |-> 0]
NoBackground == [branch |-> "none", colours |-> <<"", "">>, nan |-> FALSE, w |-> 0, h |-> 0]
NoShadow == [w |-> 0, h |-> 0]
NoMask == cornerMask(0, 0, 0)
IdleJob ==
  [pc |-> "idle", dims |-> NoDims, o |-> Destructure("shadow", NoOptions),
   plan |-> NoPlan, bg |-> NoBackground, shadow |-> NoShadow, mask |-> NoMask,
   made |-> {},
   composed |-> FALSE, copied |-> FALSE, failedAt |-> "", err |-> ""]
NoImage == [canvas |-> <<0, 0>>, background |-> <<"none", <<"", "">>>>]
NoSource == [stem |-> <<>>, ext |-> ""]
NoFile == [state |-> "absent", by |-> NoSource, layers |-> <<>>, image |-> NoImage]

\* `watch <source> <output>` and `tray <source> <output>` with the output
\* directory being the watched directory
WatchedDir == "src"

\* the file of the watched directory that a destination path names
ProducedFile(f) == [stem |-> beautifiedPath(f).stem, ext |-> beautifiedPath(f).ext]

\* the destination of a job
OutputPath(f) ==
  CASE cfg.mode = "file" ->
         IF cfg.output # ""
         THEN [dir |-> "cwd", stem |-> <<cfg.output>>, ext |-> ""]
         ELSE [beautifiedPath(f) EXCEPT !.dir = "src"]
    [] cfg.mode = "api" -> [dir |-> "cwd", stem |-> <<"api">>, ext |-> ".png"]
    [] OTHER -> IF cfg.output = WatchedDir
                THEN [beautifiedPath(f) EXCEPT !.dir = "src"]
                ELSE beautifiedPath(f)

OutPaths ==
  {beautifiedPath(f) : f \in SrcFiles}
    \cup {[beautifiedPath(f) EXCEPT !.dir = "src"] : f \in SrcFiles}
    \cup {[dir |-> "cwd", stem |-> <<a>>, ext |-> ""] : a \in OutputArgs \ {""}}
    \cup {[dir |-> "cwd", stem |-> <<"api">>, ext |-> ".png"]}

(***************************************************************************)
(* The initial state: the command has been parsed and, in watch mode, its   *)
(* action has created the watcher; no file has been handled yet.            *)
(***************************************************************************)
Shot == [stem |-> <<"shot">>, ext |-> ".png"]

\* The command lines: <<--padding, --preset, --background>>.  The file
\* command is run with every combination and with both variants of
\* beautify; the two watching modes with at most one of the three options
\* given, and with the shadow variant, the one their sources belong to.
\* The watching modes write to a directory of their own, and with no option
\* given also to the watched directory itself.
ArgTriples(mode) ==
  IF mode = "file"
  THEN PaddingArgs \X PresetArgs \X BackgroundArgs
  ELSE IF mode = "watch"
  THEN {<<p, "", "">> : p \in PaddingArgs}
         \cup {<<Omitted, pr, "">> : pr \in {"auto", "nonexistent"}}
         \cup {<<Omitted, "", bg>> : bg \in BackgroundArgs}
  ELSE {<<p, "", "">> : p \in PaddingArgs}

CliConfig(mode, v, a, d, c, i, o) ==
  [mode |-> mode, variant |-> v, paddingArg |-> a[1], preset |-> a[2],
   background |-> a[3], deleteOriginal |-> d, copyToClipboard |-> c[1],
   platform |-> c[2], input |-> i, output |-> o, api |-> NoOptions]

CliConfigs(mode) ==
  {CliConfig(mode, v, a, d, c, i, o) :
     v \in IF mode = "file" THEN {"shadow", "flat"} ELSE {"shadow"},
     a \in ArgTriples(mode), d \in BOOLEAN,
     c \in IF mode = "tray"
           THEN {<<FALSE, "darwin">>, <<TRUE, "darwin">>, <<TRUE, "linux">>}
           ELSE {<<FALSE, "darwin">>},
     i \in IF mode = "file" THEN CliFiles ELSE {Shot},
     o \in IF mode = "file" THEN OutputArgs ELSE {""}}
    \cup (IF mode = "file" THEN {}
          ELSE {CliConfig(mode, "shadow", <<Omitted, "", "">>, FALSE, <<FALSE, "darwin">>,
                          Shot, WatchedDir)})

ApiConfig(v, a) ==
  [mode |-> "api", variant |-> v, paddingArg |-> Omitted, preset |-> "",
   background |-> "", deleteOriginal |-> FALSE, copyToClipboard |-> FALSE,
   platform |-> "darwin", input |-> Shot, output |-> "", api |-> a]
ApiConfigs ==
  {ApiConfig("shadow", a) : a \in ApiOptions("shadow")}
    \cup {ApiConfig("flat", a) : a \in ApiOptions("flat")}

\* no colour has been converted yet
NoHsl == [h |-> Frac(0, 1), s |-> Frac(0, 1), l |-> Frac(0, 1)]

NoAnalysis ==
  [pc |-> "idle", data |-> <<>>, colorCounts |-> <<>>, pixelCount |-> 0,
   dominant |-> [key |-> <<0, 0, 0>>, count |-> 0, r |-> 0, g |-> 0, b |-> 0],
   s |-> Frac(0, 1), avgSaturation |-> Frac(0, 1), rgbRange |-> 0, isNeutral |-> FALSE,
   hsl |-> NoHsl, color1Hsl |-> NoHsl, color2Hsl |-> NoHsl,
   color1 |-> [r |-> 0, g |-> 0, b |-> 0], color2 |-> [r |-> 0, g |-> 0, b |-> 0],
   result |-> <<>>]

\* `screenshot-beautify presets`
PresetsConfig ==
  [mode |-> "presets", variant |-> "shadow", paddingArg |-> Omitted, preset |-> "",
   background |-> "", deleteOriginal |-> FALSE, copyToClipboard |-> FALSE,
   platform |-> "darwin", input |-> Shot, output |-> "", api |-> NoOptions]

\* a direct call of the exported extractDominantColor
ExtractConfig == [PresetsConfig EXCEPT !.mode = "extract"]

\* the angles a caller's preset can carry (angle is optional)
Angles == {Undef, Num(0), Num(45), Num(60), Num(90), Num(135), Num(180), Num(270)}

\* a direct call of the exported createPresetBackground, on a name of the
\* catalog, on an unknown name, or on the preset the caller registered
GradientConfig(name, angle) ==
  [mode |-> "gradient", variant |-> "shadow", paddingArg |-> Omitted, preset |-> name,
   background |-> "", deleteOriginal |-> FALSE, copyToClipboard |-> FALSE,
   platform |-> "darwin", input |-> Shot, output |-> "", api |-> NoOptions,
   customAngle |-> angle]
GradientConfigs ==
  {GradientConfig(PresetKeys[i], Undef) : i \in 1..Len(PresetKeys)}
    \cup {GradientConfig("nonexistent", Undef)}
    \cup {GradientConfig(CustomPreset, a) : a \in Angles}

\* the keys of GRADIENT_PRESETS when the run starts: those of the source,
\* and the caller's where the caller registered a preset
InitialCatalog ==
  IF cfg.mode = "gradient" /\ cfg.preset = CustomPreset
  THEN Append(PresetKeys, CustomPreset) ELSE PresetKeys

NoGradient == [pc |-> "idle", err |-> "", axis |-> NoAxis, stops |-> <<>>]

\* a direct use of rgbToHsl and hslToRgb on one colour
RoundTripConfig == [PresetsConfig EXCEPT !.mode = "roundtrip"]

\* the channels drawn: MaxShade even steps over 0..255 and the neighbours
\* of the ends and of the middle
Shades == {(255 * i) \div MaxShade : i \in 0..MaxShade} \cup {1, 127, 128, 254}
Colours == [r : Shades, g : Shades, b : Shades]

NoConversion ==
  [pc |-> "idle", rgb |-> [r |-> 0, g |-> 0, b |-> 0], hsl |-> NoHsl,
   back |-> [r |-> 0, g |-> 0, b |-> 0]]

Configs ==
  CliConfigs("file") \cup CliConfigs("watch") \cup CliConfigs("tray")
    \cup {PresetsConfig, ExtractConfig, RoundTripConfig} \cup GradientConfigs
    \cup ApiConfigs

Init ==
  /\ cfg \in Configs
  /\ catalog = InitialCatalog
  /\ listed = <<>>
  /\ analysis = NoAnalysis
  /\ gradient = NoGradient
  /\ conversion = NoConversion
  /\ jobs = [f \in SrcFiles |-> IdleJob]
  /\ orig = [f \in SrcFiles |->
               IF cfg.mode \in {"file", "api"} /\ f = cfg.input THEN "present" ELSE "absent"]
  /\ out = [p \in OutPaths |-> NoFile]
  /\ watcher = (cfg.mode = "watch")
  /\ liveWatchers = IF cfg.mode = "watch" THEN 1 ELSE 0
  /\ trayReady = FALSE
  /\ processedCount = 0
  /\ exit = "running"
  /\ log = [f \in SrcFiles |-> {}]

Running == exit = "running"

\* the awaits of beautify that come before toFile
EarlierSteps == {"metadata", "background", "frame", "shadow", "mask", "rounded"}

(***************************************************************************)
(* The options each caller hands to beautify.                               *)
(***************************************************************************)
Eighty == <<"8", "0">>

\* index.ts, watch: parseInt(opts.padding, 10)
WatchOptions ==
  [NoOptions EXCEPT !.padding = parseInt(OptionValue(cfg.paddingArg, Eighty)),
                    !.backgroundImage = cfg.background,
                    !.backgroundPreset = cfg.preset]

\* index.ts, file: parseInt(opts.padding || "80", 10)
FileOptions ==
  LET text == OptionValue(cfg.paddingArg, Eighty)
  IN [NoOptions EXCEPT !.padding = parseInt(IF text = <<>> THEN Eighty ELSE text),
                       !.backgroundImage = cfg.background,
                       !.backgroundPreset = cfg.preset]

\* index.ts, tray: parseInt(opts.padding, 10); tray.ts, startTray:
\* padding: options.padding || 80
TrayConfigPadding ==
  OrDefault(parseInt(OptionValue(cfg.paddingArg, Eighty)), DefaultPadding)

\* tray.ts, processFile: padding: config.padding || 80
TrayOptions ==
  [NoOptions EXCEPT !.padding = OrDefault(TrayConfigPadding, DefaultPadding),
                    !.backgroundImage = cfg.background,
                    !.backgroundPreset = cfg.preset]

CallerOptions ==
  CASE cfg.mode = "watch" -> WatchOptions
    [] cfg.mode = "file" -> FileOptions
    [] cfg.mode = "tray" -> TrayOptions
    [] OTHER -> cfg.api

(***************************************************************************)
(* The callers' continuations of `await beautify(...)`.                     *)
(***************************************************************************)
Say(f, msg) == [log EXCEPT ![f] = @ \cup {msg}]

\* Caught, were every caller to end the process as the file command does
CaughtMutExits(f, step, err) ==
  /\ jobs' = [jobs EXCEPT ![f].pc = "failed", ![f].failedAt = step, ![f].err = err]
  /\ log' = Say(f, "Error")
  /\ exit' = "exit1"
  /\ UNCHANGED processedCount

\* the catch clause of the caller, entered from `step` with error `err`
Caught(f, step, err) ==
  /\ jobs' = [jobs EXCEPT ![f].pc = "failed", ![f].failedAt = step, ![f].err = err]
  /\ log' = CASE cfg.mode = "watch" -> Say(f, "Failed to beautify")
              [] cfg.mode = "file" -> Say(f, "Error")
              [] OTHER -> log
  /\ exit' = IF cfg.mode = "file" THEN "exit1" ELSE exit
  /\ UNCHANGED processedCount

\* NextPostAction, were the original deleted whether or not the option is set
NextPostActionMutAlwaysDeletes(from) ==
  IF from = "beautify" /\ cfg.mode = "tray" /\ cfg.copyToClipboard THEN "clipboard"
  ELSE IF cfg.mode # "api" THEN "unlink"
  ELSE "done"

\* where the caller goes once the post-actions before `from` are behind it
NextPostAction(from) ==
  IF from = "beautify" /\ cfg.mode = "tray" /\ cfg.copyToClipboard THEN "clipboard"
  ELSE IF cfg.deleteOriginal /\ cfg.mode # "api" THEN "unlink"
  ELSE "done"

\* the handler has run to its end; the file command's process then ends
Finish(pc) == IF pc = "done" /\ cfg.mode = "file" THEN "exit0" ELSE exit

\* Resolved, were the tray not to count the composition
ResolvedMutNoCount(f) ==
  LET pc == NextPostAction("beautify")
  IN /\ jobs' = [jobs EXCEPT ![f].pc = pc, ![f].composed = TRUE,
                             ![f].made = @ \cup {"output"}]
     /\ log' = CASE cfg.mode = "watch" -> Say(f, "Beautified")
                 [] cfg.mode = "file" -> Say(f, "Saved to")
                 [] OTHER -> log
     /\ processedCount' = processedCount
     /\ exit' = Finish(pc)

\* beautify has resolved: the statements of the caller up to its next await
Resolved(f) ==
  LET pc == NextPostAction("beautify")
  IN /\ jobs' = [jobs EXCEPT ![f].pc = pc, ![f].composed = TRUE,
                             ![f].made = @ \cup {"output"}]
     /\ log' = CASE cfg.mode = "watch" -> Say(f, "Beautified")
                 [] cfg.mode = "file" -> Say(f, "Saved to")
                 [] OTHER -> log
     /\ processedCount' = IF cfg.mode = "tray" THEN processedCount + 1 ELSE processedCount
     /\ exit' = Finish(pc)

\* Composed, were the picture to carry the number of compositions before it
ComposedMutCounts(variant, j) ==
  [canvas |-> <<j.bg.w, j.bg.h>>,
   background |-> <<j.bg.branch, j.bg.colours>>,
   at |-> Placement(variant, j.plan),
   shadow |-> j.shadow,
   mask |-> j.mask,
   stamp |-> processedCount]

\* the picture `sharp(background).composite([...])` encodes: the background
\* at the canvas size and each layer with its place
Composed(variant, j) ==
  [canvas |-> <<j.bg.w, j.bg.h>>,
   background |-> <<j.bg.branch, j.bg.colours>>,
   at |-> Placement(variant, j.plan),
   shadow |-> j.shadow,
   mask |-> j.mask]

(***************************************************************************)
(* beautify, one action per await.  Each action is the resumption of the    *)
(* coroutine after the awaited promise settled, up to the next await.       *)
(***************************************************************************)
\* beautify's synchronous head: destructure the options, ask for the metadata
BeginBeautify(f) ==
  [jobs EXCEPT ![f].pc = "metadata", ![f].o = Destructure(cfg.variant, CallerOptions)]

Env == <<catalog, listed, analysis, gradient, conversion, cfg, orig, watcher, liveWatchers, trayReady>>

\* the background createBackground is asked for: beautify passes width,
\* height, imagePath, preset and the two gradient colours, no sourceImagePath
RequestedBackground(o, plan) ==
  LET branch == BackgroundBranch(o.backgroundImage, o.backgroundPreset, "")
  IN [branch |-> branch,
      colours |-> BackgroundColours(branch, o.backgroundPreset,
                                    o.gradientStart, o.gradientEnd),
      nan |-> plan.nan, w |-> plan.canvasWidth, h |-> plan.canvasHeight]

\* `await inputImage.metadata()` settled
MetadataDone(f) ==
  /\ Running
  /\ jobs[f].pc = "metadata"
  /\ \/ Caught(f, "metadata", "IOFailure")
     \/ \E d \in CASE cfg.mode = "api" -> ApiDims
                    [] cfg.mode = "file" -> FileDims
                    [] OTHER -> CliDims :
          IF d.w = 0 \/ d.h = 0
          THEN Caught(f, "metadata", "Could not determine image dimensions")
          ELSE LET plan == Layout(cfg.variant, d, jobs[f].o)
               IN /\ jobs' = [jobs EXCEPT ![f].pc = "background", ![f].dims = d,
                                          ![f].plan = plan, ![f].made = {"dimensions"},
                                          ![f].bg = RequestedBackground(jobs[f].o, plan)]
                  /\ UNCHANGED <<log, exit, processedCount>>
  /\ UNCHANGED <<Env, out>>

\* `await createBackground(...)` settled
BackgroundDone(f) ==
  /\ Running
  /\ jobs[f].pc = "background"
  /\ LET built == IF jobs[f].bg.branch = "preset"
                  THEN createPresetBackground(jobs[f].o.backgroundPreset).result
                  ELSE "ok"
     IN IF built # "ok" THEN Caught(f, "background", built)
        ELSE \/ Caught(f, "background", "IOFailure")
             \/ /\ jobs' = [jobs EXCEPT ![f].pc = "frame",
                                        ![f].made = @ \cup {"background"}]
                /\ UNCHANGED <<log, exit, processedCount>>
  /\ UNCHANGED <<Env, out>>

\* `await createFrame(...)` settled
FrameDone(f) ==
  /\ Running
  /\ jobs[f].pc = "frame"
  /\ \/ Caught(f, "frame", "IOFailure")
     \/ /\ jobs' = [jobs EXCEPT ![f].pc = IF cfg.variant = "shadow" THEN "shadow" ELSE "mask",
                                ![f].made = @ \cup {"frame"}]
        /\ UNCHANGED <<log, exit, processedCount>>
  /\ UNCHANGED <<Env, out>>

\* `await createShadow(...)` settled (shadow variant only)
ShadowDone(f) ==
  /\ Running
  /\ jobs[f].pc = "shadow"
  /\ \/ Caught(f, "shadow", "IOFailure")
     \/ /\ jobs' = [jobs EXCEPT ![f].pc = "mask", ![f].made = @ \cup {"shadow"},
                                ![f].shadow = createShadow(jobs[f].plan.framedWidth,
                                                           jobs[f].plan.framedHeight,
                                                           jobs[f].o.shadowBlur)]
        /\ UNCHANGED <<log, exit, processedCount>>
  /\ UNCHANGED <<Env, out>>

\* MaskDone, were the composite written before the screenshot is masked
MaskDoneMutWritesFirst(f) ==
  /\ Running
  /\ jobs[f].pc = "mask"
  /\ jobs' = [jobs EXCEPT ![f].pc = "rounded", ![f].made = @ \cup {"mask"}]
  /\ out' = [out EXCEPT ![OutputPath(f)] =
               [state |-> "written", by |-> f, layers |-> CompositeOrder(cfg.variant),
                image |-> Composed(cfg.variant, jobs[f])]]
  /\ UNCHANGED <<Env, log, exit, processedCount>>

\* `await sharp(cornerMask).png().toBuffer()` settled
MaskDone(f) ==
  /\ Running
  /\ jobs[f].pc = "mask"
  /\ \/ Caught(f, "mask", "IOFailure")
     \/ /\ jobs' = [jobs EXCEPT ![f].pc = "rounded", ![f].made = @ \cup {"mask"},
                                ![f].mask = cornerMask(jobs[f].dims.w, jobs[f].dims.h,
                                                       jobs[f].o.cornerRadius)]
        /\ UNCHANGED <<log, exit, processedCount>>
  /\ UNCHANGED <<Env, out>>

\* the masked screenshot, `await sharp(inputPath)...toBuffer()`, settled
RoundedDone(f) ==
  /\ Running
  /\ jobs[f].pc = "rounded"
  /\ \/ Caught(f, "rounded", "IOFailure")
     \/ /\ jobs' = [jobs EXCEPT ![f].pc = "tofile", ![f].made = @ \cup {"screenshot"}]
        /\ UNCHANGED <<log, exit, processedCount>>
  /\ UNCHANGED <<Env, out>>

\* a destination created in the watched directory is a new file there
Produce(f, files) ==
  IF /\ cfg.mode \in {"watch", "tray"}
     /\ cfg.output = WatchedDir
     /\ files[OutputPath(f)].state # "absent"
     /\ ProducedFile(f) \in SrcFiles
     /\ orig[ProducedFile(f)] = "absent"
  THEN [orig EXCEPT ![ProducedFile(f)] = "produced"]
  ELSE orig

\* `await sharp(background).composite([...]).png().toFile(outputPath)`
\* settled.  A failed toFile may or may not have touched the destination.
ToFileDone(f) ==
  /\ Running
  /\ jobs[f].pc = "tofile"
  /\ \/ /\ Caught(f, "tofile", "IOFailure")
        /\ \/ out' = out
           \/ out' = [out EXCEPT ![OutputPath(f)] =
                        [state |-> "partial", by |-> f, layers |-> <<>>,
                         image |-> NoImage]]
     \/ /\ Resolved(f)
        /\ out' = [out EXCEPT ![OutputPath(f)] =
                     [state |-> "written", by |-> f,
                      layers |-> CompositeOrder(cfg.variant),
                      image |-> Composed(cfg.variant, jobs[f])]]
  /\ orig' = Produce(f, out')
  /\ UNCHANGED <<catalog, listed, analysis, gradient, conversion, cfg, watcher, liveWatchers,
                 trayReady>>

(***************************************************************************)
(* The post-composition actions of the callers.                             *)
(***************************************************************************)
\* tray.ts: `await copyImageToClipboard(beautifiedPath)` settled
ClipboardDone(f) ==
  /\ Running
  /\ jobs[f].pc = "clipboard"
  /\ \/ /\ cfg.platform = "darwin"
        /\ Caught(f, "clipboard", "ExecFailure")
     \/ LET pc == NextPostAction("clipboard")
        IN /\ jobs' = [jobs EXCEPT ![f].pc = pc,
                                   ![f].copied = (cfg.platform = "darwin")]
           /\ exit' = Finish(pc)
           /\ UNCHANGED <<log, processedCount>>
  /\ UNCHANGED <<Env, out>>

\* `await unlink(filePath)` settled
UnlinkDone(f) ==
  /\ Running
  /\ jobs[f].pc = "unlink"
  /\ \/ /\ Caught(f, "unlink", "IOFailure")
        /\ UNCHANGED orig
     \/ /\ jobs' = [jobs EXCEPT ![f].pc = "done"]
        /\ orig' = [orig EXCEPT ![f] = "deleted"]
        /\ log' = IF cfg.mode \in {"watch", "file"} THEN Say(f, "Deleted original") ELSE log
        /\ exit' = Finish("done")
        /\ UNCHANGED processedCount
  /\ UNCHANGED <<catalog, listed, analysis, gradient, conversion, cfg, watcher, liveWatchers, trayReady, out>>

(***************************************************************************)
(* The entry points.                                                        *)
(***************************************************************************)
\* index.ts, the file command's action up to `await beautify(...)`
FileCommand ==
  /\ Running
  /\ cfg.mode = "file"
  /\ jobs[cfg.input].pc = "idle"
  /\ jobs' = BeginBeautify(cfg.input)
  /\ log' = Say(cfg.input, "Beautifying")
  /\ UNCHANGED <<Env, out, processedCount, exit>>

\* extractDominantColor up to its await of the resized raw pixels
ExtractCall ==
  /\ Running
  /\ cfg.mode = "extract"
  /\ analysis.pc = "idle"
  /\ analysis' = [analysis EXCEPT !.pc = "resizing"]
  /\ UNCHANGED <<catalog, listed, gradient, conversion, cfg, jobs, orig, out, watcher, liveWatchers, trayReady,
                 processedCount, exit, log>>

\* the await settled: the image cannot be read, or the pixels are analysed
ExtractDone ==
  /\ Running
  /\ cfg.mode = "extract"
  /\ analysis.pc = "resizing"
  /\ \/ analysis' = [analysis EXCEPT !.pc = "failed"]
     \/ \E data \in Images : analysis' = extractDominantColor(data)
  /\ UNCHANGED <<catalog, listed, gradient, conversion, cfg, jobs, orig, out, watcher, liveWatchers, trayReady,
                 processedCount, exit, log>>

\* createPresetBackground up to its await of the rendered svg
GradientCall ==
  /\ Running
  /\ cfg.mode = "gradient"
  /\ gradient.pc = "idle"
  /\ LET built == createPresetBackground(cfg.preset)
     IN gradient' = [pc |-> IF built.result = "ok" THEN "rendering" ELSE "failed",
                     err |-> IF built.result = "ok" THEN "" ELSE built.result,
                     axis |-> built.axis, stops |-> built.stops]
  /\ UNCHANGED <<catalog, listed, analysis, conversion, cfg, jobs, orig, out, watcher, liveWatchers,
                 trayReady, processedCount, exit, log>>

\* the await settled: sharp rendered the svg, or failed
GradientDone ==
  /\ Running
  /\ cfg.mode = "gradient"
  /\ gradient.pc = "rendering"
  /\ \/ gradient' = [gradient EXCEPT !.pc = "done"]
     \/ gradient' = [gradient EXCEPT !.pc = "failed", !.err = "IOFailure"]
  /\ UNCHANGED <<catalog, listed, analysis, conversion, cfg, jobs, orig, out, watcher, liveWatchers,
                 trayReady, processedCount, exit, log>>

\* rgbToHsl(r, g, b) on a colour with 8-bit channels
RgbToHslCall ==
  /\ Running
  /\ cfg.mode = "roundtrip"
  /\ conversion.pc = "idle"
  /\ \E c \in Colours :
       conversion' = [conversion EXCEPT !.pc = "hsl", !.rgb = c, !.hsl = rgbToHsl(c)]
  /\ UNCHANGED <<catalog, listed, analysis, gradient, cfg, jobs, orig, out, watcher,
                 liveWatchers, trayReady, processedCount, exit, log>>

\* hslToRgb(h, s, l) on the triple rgbToHsl returned
HslToRgbCall ==
  /\ Running
  /\ cfg.mode = "roundtrip"
  /\ conversion.pc = "hsl"
  /\ conversion' = [conversion EXCEPT !.pc = "done", !.back = hslToRgb(conversion.hsl)]
  /\ UNCHANGED <<catalog, listed, analysis, gradient, cfg, jobs, orig, out, watcher,
                 liveWatchers, trayReady, processedCount, exit, log>>

\* index.ts, the presets command: it lists once and the process ends
PresetsCommand ==
  /\ Running
  /\ cfg.mode = "presets"
  /\ listed' = Append(listed, listPresets)
  /\ exit' = "exit0"
  /\ UNCHANGED <<catalog, analysis, gradient, conversion, cfg, jobs, orig, out, watcher, liveWatchers,
                 trayReady, processedCount, log>>

\* ListPresetsCall, were a listing to take the first name off the catalog
ListPresetsCallMutConsumes ==
  /\ Running
  /\ cfg.mode = "api" /\ cfg.variant = "flat"
  /\ Len(listed) < MaxListings
  /\ listed' = Append(listed, listPresets)
  /\ catalog' = Tail(catalog)
  /\ UNCHANGED <<analysis, gradient, conversion, cfg, jobs, orig, out, watcher, liveWatchers, trayReady,
                 processedCount, exit, log>>

\* a direct call of the exported listPresets, at any moment of a program
\* that also calls beautify
ListPresetsCall ==
  /\ Running
  /\ cfg.mode = "api" /\ cfg.variant = "flat"
  /\ Len(listed) < MaxListings
  /\ listed' = Append(listed, listPresets)
  /\ UNCHANGED <<catalog, analysis, gradient, conversion, cfg, jobs, orig, out, watcher, liveWatchers,
                 trayReady, processedCount, exit, log>>

\* a direct call of the exported beautify
ApiCall ==
  /\ Running
  /\ cfg.mode = "api"
  /\ jobs[cfg.input].pc = "idle"
  /\ jobs' = BeginBeautify(cfg.input)
  /\ UNCHANGED <<Env, out, processedCount, exit, log>>

Added == {f \in SrcFiles : orig[f] # "absent"}

\* the files a user can put into the watched directory in this run: where
\* the tool writes into the watched directory, the two screenshots of one
\* base name
Appearing == IF cfg.output = WatchedDir THEN {Shot, ShotJpg} ELSE CliFiles

\* chokidar emits "add" for f: a user put it there, or the tool produced it
\* and it has not been reported yet
AddEvent(f) ==
  \/ f \in Appearing /\ orig[f] = "absent" /\ Cardinality(Added) < MaxAdded
  \/ orig[f] = "produced" /\ jobs[f].pc = "idle"

\* index.ts, watch: file f appears and chokidar's "add" calls processFile
WatchAdd(f) ==
  /\ Running
  /\ cfg.mode = "watch"
  /\ liveWatchers > 0
  /\ AddEvent(f)
  /\ orig' = [orig EXCEPT ![f] = IF @ = "absent" THEN "present" ELSE @]
  /\ IF ~isImageFile(f) \/ isAlreadyBeautified(f)
     THEN /\ jobs' = [jobs EXCEPT ![f].pc = "skipped"]
          /\ log' = log
     ELSE /\ jobs' = BeginBeautify(f)
          /\ log' = Say(f, "New screenshot detected")
  /\ UNCHANGED <<catalog, listed, analysis, gradient, conversion, cfg, watcher, liveWatchers, trayReady, out, processedCount, exit>>

\* tray.ts: file f appears and chokidar's "add" calls processFile
TrayAdd(f) ==
  /\ Running
  /\ cfg.mode = "tray"
  /\ liveWatchers > 0
  /\ AddEvent(f)
  /\ orig' = [orig EXCEPT ![f] = IF @ = "absent" THEN "present" ELSE @]
  /\ jobs' = IF ~isImageFile(f) \/ isAlreadyBeautified(f)
             THEN [jobs EXCEPT ![f].pc = "skipped"]
             ELSE BeginBeautify(f)
  /\ UNCHANGED <<catalog, listed, analysis, gradient, conversion, cfg, watcher, liveWatchers, trayReady, out, processedCount, exit, log>>

\* a file appears while no watcher is active: nobody is told
UnwatchedAdd(f) ==
  /\ Running
  /\ cfg.mode = "tray"
  /\ liveWatchers = 0
  /\ f \in Appearing
  /\ orig[f] = "absent"
  /\ Cardinality(Added) < MaxAdded
  /\ orig' = [orig EXCEPT ![f] = "present"]
  /\ UNCHANGED <<catalog, listed, analysis, gradient, conversion, cfg, jobs, watcher, liveWatchers, trayReady, out, processedCount, exit, log>>

\* process.exit with jobs in flight: their coroutines are gone.  A job that
\* had not composed yet leaves nothing behind (its locals go with it); one
\* that was at a post-action keeps what it had done.
InFlight == EarlierSteps \cup {"tofile", "clipboard", "unlink"}
Killed(j) ==
  IF j.pc \notin InFlight THEN j
  ELSE IF j.composed THEN [j EXCEPT !.pc = "killed"]
  ELSE [IdleJob EXCEPT !.pc = "killed"]
ProcessExit == [f \in SrcFiles |-> Killed(jobs[f])]

\* index.ts, watch: the SIGINT handler
Sigint ==
  /\ Running
  /\ cfg.mode = "watch"
  /\ watcher' = watcher
  /\ liveWatchers' = 0
  /\ exit' = "exit0"
  /\ jobs' = ProcessExit
  /\ UNCHANGED <<catalog, listed, analysis, gradient, conversion, cfg, orig, out, trayReady, processedCount, log>>

(***************************************************************************)
(* tray.ts: the watcher and the menu.                                       *)
(***************************************************************************)
\* startWatching: <<watcher, liveWatchers>> after the call
startWatching(w, n) == IF w THEN <<w, n>> ELSE <<TRUE, n + 1>>

\* stopWatching, were it to close a watcher without looking whether there is one
stopWatchingMutNoGuard(w, n) == <<FALSE, n - 1>>

\* stopWatching
stopWatching(w, n) == IF w THEN <<FALSE, n - 1>> ELSE <<w, n>>

\* createTray after `await systray.ready()`: trayReady, then startWatching
TrayBecomesReady ==
  /\ Running
  /\ cfg.mode = "tray"
  /\ ~trayReady
  /\ trayReady' = TRUE
  /\ LET after == startWatching(watcher, liveWatchers)
     IN watcher' = after[1] /\ liveWatchers' = after[2]
  /\ UNCHANGED <<catalog, listed, analysis, gradient, conversion, cfg, jobs, orig, out, processedCount, exit, log>>

\* onClick, seq_id 1
ClickToggle ==
  /\ Running
  /\ cfg.mode = "tray"
  /\ trayReady
  /\ LET after == IF watcher THEN stopWatching(watcher, liveWatchers)
                  ELSE startWatching(watcher, liveWatchers)
     IN watcher' = after[1] /\ liveWatchers' = after[2]
  /\ UNCHANGED <<catalog, listed, analysis, gradient, conversion, cfg, jobs, orig, out, trayReady, processedCount, exit, log>>

\* onClick, seq_id 2: openOutputFolder
ClickOpenFolder ==
  /\ Running
  /\ cfg.mode = "tray"
  /\ trayReady
  /\ UNCHANGED vars

\* onClick, seq_id 4: stopWatching, kill the tray, process.exit(0)
ClickQuit ==
  /\ Running
  /\ cfg.mode = "tray"
  /\ trayReady
  /\ LET after == stopWatching(watcher, liveWatchers)
     IN watcher' = after[1] /\ liveWatchers' = after[2]
  /\ exit' = "exit0"
  /\ jobs' = ProcessExit
  /\ UNCHANGED <<catalog, listed, analysis, gradient, conversion, cfg, orig, out, trayReady, processedCount, log>>

Next ==
  \/ ExtractCall
  \/ ExtractDone
  \/ GradientCall
  \/ GradientDone
  \/ RgbToHslCall
  \/ HslToRgbCall
  \/ PresetsCommand
  \/ ListPresetsCall
  \/ FileCommand
  \/ ApiCall
  \/ \E f \in SrcFiles : WatchAdd(f)
  \/ \E f \in SrcFiles : TrayAdd(f)
  \/ \E f \in SrcFiles : UnwatchedAdd(f)
  \/ \E f \in SrcFiles : MetadataDone(f)
  \/ \E f \in SrcFiles : BackgroundDone(f)
  \/ \E f \in SrcFiles : FrameDone(f)
  \/ \E f \in SrcFiles : ShadowDone(f)
  \/ \E f \in SrcFiles : MaskDone(f)
  \/ \E f \in SrcFiles : RoundedDone(f)
  \/ \E f \in SrcFiles : ToFileDone(f)
  \/ \E f \in SrcFiles : ClipboardDone(f)
  \/ \E f \in SrcFiles : UnlinkDone(f)
  \/ Sigint
  \/ TrayBecomesReady
  \/ ClickToggle
  \/ ClickOpenFolder
  \/ ClickQuit

Spec == Init /\ [][Next]_vars

(***************************************************************************)
(* Properties.                                                              *)
(***************************************************************************)
Started(f) == jobs[f].pc \notin {"idle", "skipped"}

\* the layers beautify produces before it composes
LayersOf(variant) ==
  {"dimensions", "background", "frame", "mask", "screenshot"}
    \cup (IF variant = "shadow" THEN {"shadow"} ELSE {})

Touched(f) == out[OutputPath(f)].state # "absent" /\ out[OutputPath(f)].by = f

\* C1: the destination is written by the last step of beautify only: a
\* destination that exists was written by a job that had its dimensions, its
\* background, its frame, its shadow (shadow variant) and its masked
\* screenshot; a job still before toFile, or failed at a step before toFile
\* (unknown dimensions included), has not touched its destination.
C1_WrittenLast ==
  /\ \A p \in OutPaths :
       out[p].state # "absent" =>
         \E f \in SrcFiles : Started(f) /\ p = OutputPath(f) /\ out[p].by = f
  /\ \A f \in SrcFiles :
       /\ Touched(f) =>
            /\ LayersOf(cfg.variant) \subseteq jobs[f].made
            /\ jobs[f].pc \in {"clipboard", "unlink", "done", "failed", "killed"}
            /\ jobs[f].failedAt \notin EarlierSteps
       /\ (jobs[f].pc \in EarlierSteps \cup {"tofile"} \/ jobs[f].failedAt \in EarlierSteps)
            => ~Touched(f)
       /\ out[OutputPath(f)].state = "written" /\ out[OutputPath(f)].by = f
            => jobs[f].composed

\* one job wrote its destination while another failed on unknown dimensions
\* and left none
C1_Witness ==
  \E f, g \in SrcFiles :
    /\ out[OutputPath(f)].state = "written" /\ jobs[f].composed
    /\ jobs[g].err = "Could not determine image dimensions"
    /\ out[OutputPath(g)].state = "absent"

\* C2: with the preset "auto" and no background image, the background is
\* the gradient extracted from the source screenshot.
C2_AutoExtracts ==
  \A f \in SrcFiles :
    (/\ jobs[f].bg.branch # "none"
     /\ jobs[f].o.backgroundPreset = "auto"
     /\ jobs[f].o.backgroundImage = "")
      => /\ jobs[f].bg.branch = "auto"
         /\ jobs[f].bg.colours = <<"extracted1", "extracted2">>

\* C3: with a preset name that is not in the catalog (and no background
\* image) the composition fails with the unknown-preset error that lists the
\* catalog; it builds no background and writes no file.  (Stated for the
\* names whose lookup in GRADIENT_PRESETS is undefined; a name every object
\* inherits, such as "constructor", fails too, but with a TypeError.)
C3_UnknownPresetFails ==
  \A f \in SrcFiles :
    (/\ Started(f)
     /\ jobs[f].o.backgroundImage = ""
     /\ jobs[f].o.backgroundPreset \notin {"", "auto"} \cup GRADIENT_PRESETS \cup InheritedNames)
      => /\ "background" \notin jobs[f].made
         /\ out[OutputPath(f)].state = "absent"
         /\ jobs[f].failedAt = "background" =>
              /\ jobs[f].err = "UnknownPreset"
              /\ createPresetBackground(jobs[f].o.backgroundPreset).lists = listPresets

\* C4: a composition with a negative padding is rejected before any layer
\* is produced and before anything is written.  (What becomes of a padding
\* that is NaN is decided by the image library, not by this code: the
\* statement is given for the negative padding, which the code decides.)
C4_InvalidConfigRejected ==
  \A f \in SrcFiles :
    (Started(f) /\ IsNum(jobs[f].o.padding) /\ jobs[f].o.padding.v < 0)
      => /\ jobs[f].made \cap {"background", "frame", "shadow", "mask", "screenshot", "output"} = {}
         /\ out[OutputPath(f)].state = "absent"

\* C5: the original is deleted, and the clipboard copy made, only after
\* beautify has resolved and written the output, and only with the option
\* set; a failed composition or a skipped file never loses its original.
C5_PostActionsAfterOutput ==
  \A f \in SrcFiles :
    /\ (orig[f] = "deleted" \/ jobs[f].pc = "unlink") =>
         /\ jobs[f].composed
         /\ out[OutputPath(f)].state # "absent"
         /\ cfg.deleteOriginal
    /\ (jobs[f].copied \/ jobs[f].pc = "clipboard") =>
         /\ jobs[f].composed
         /\ out[OutputPath(f)].state # "absent"
         /\ cfg.copyToClipboard
    /\ (~jobs[f].composed \/ jobs[f].pc = "skipped") => orig[f] # "deleted"

\* an original deleted after its output was written, in a watching mode
C5_Witness ==
  \E f \in SrcFiles :
    /\ cfg.mode \in {"watch", "tray"}
    /\ orig[f] = "deleted"
    /\ out[OutputPath(f)].state = "written"
    /\ \E g \in SrcFiles : jobs[g].pc = "failed" /\ ~jobs[g].composed /\ orig[g] = "present"

JobFailsNow(f) == jobs[f].pc # "failed" /\ jobs'[f].pc = "failed"

\* C6: in watch and tray mode a step in which one file's job fails leaves
\* the watcher and the process running and changes nothing of any other
\* job: its position, its layers, its original and, unless the failed job
\* writes to the same path, its destination file.
C6_FailureIsolated ==
  [][\A f \in SrcFiles :
       (cfg.mode \in {"watch", "tray"} /\ JobFailsNow(f)) =>
         /\ watcher' = watcher
         /\ liveWatchers' = liveWatchers
         /\ exit' = exit
         /\ \A g \in SrcFiles \ {f} :
              /\ jobs'[g] = jobs[g]
              /\ orig[g] # "absent" => orig'[g] = orig[g]
              /\ OutputPath(g) # OutputPath(f) =>
                   out'[OutputPath(g)] = out[OutputPath(g)]]_vars

\* a job completed although another job of the same watcher had failed
C6_Witness ==
  \E f, g \in SrcFiles :
    /\ cfg.mode \in {"watch", "tray"}
    /\ jobs[f].pc = "failed"
    /\ jobs[g].pc = "done" /\ out[OutputPath(g)].state = "written"
    /\ liveWatchers = 1 /\ exit = "running"

\* C7: a post-action that fails after the output was written leaves the
\* composition a success: the output stays, the file is not reported as a
\* failed beautification, the process does not end with an error status,
\* and the deletion that was still to come is not dropped.
C7_PostFailureKeepsSuccess ==
  \A f \in SrcFiles :
    (jobs[f].composed /\ jobs[f].failedAt \in {"clipboard", "unlink"}) =>
      /\ out[OutputPath(f)].state = "written"
      /\ log[f] \cap {"Failed to beautify", "Error"} = {}
      /\ exit # "exit1"
      /\ (jobs[f].failedAt = "clipboard" /\ cfg.deleteOriginal) => jobs[f].pc # "failed"

Index(seq, x) == CHOOSE i \in 1..Len(seq) : seq[i] = x
Has(seq, x) == \E i \in 1..Len(seq) : seq[i] = x

\* C8: every written composite stacks its layers back to front as shadow
\* (shadow variant only), frame, masked screenshot: the screenshot is the
\* top-most layer and the shadow is never above the frame.
C8_StackingOrder ==
  \A p \in OutPaths :
    out[p].state = "written" =>
      LET ls == out[p].layers
      IN /\ Len(ls) >= 2
         /\ ls[Len(ls)] = "screenshot"
         /\ Has(ls, "frame")
         /\ Has(ls, "shadow") <=> cfg.variant = "shadow"
         /\ Has(ls, "shadow") => Index(ls, "shadow") < Index(ls, "frame")
         /\ \A i, j \in 1..Len(ls) : ls[i] = ls[j] => i = j

C8_Witness ==
  \E p \in OutPaths :
    out[p].state = "written" /\ Has(out[p].layers, "shadow") /\ Len(out[p].layers) = 3

\* C9: in the shadow variant, for every image size and every configuration
\* with a numeric padding, framedWidth = imageWidth, framedHeight =
\* imageHeight + titleBarHeight, shadowPadding = 2 * shadowBlur +
\* |shadowOffsetY|, canvasWidth = framedWidth + 2 * padding + shadowPadding,
\* canvasHeight = framedHeight + 2 * padding + shadowPadding; a 1000x700
\* image with the defaults gives framedHeight 732, shadowPadding 80 and a
\* 1240x972 canvas; and the background is asked for at the canvas size.
C9_ShadowLayout ==
  \A f \in SrcFiles :
    (cfg.variant = "shadow" /\ "dimensions" \in jobs[f].made /\ IsNum(jobs[f].o.padding)) =>
      LET o == jobs[f].o
          plan == jobs[f].plan
          d == jobs[f].dims
      IN /\ plan.framedWidth = d.w
         /\ plan.framedHeight = d.h + o.titleBarHeight
         /\ plan.shadowPadding = 2 * o.shadowBlur + Abs(o.shadowOffsetY)
         /\ plan.canvasWidth = d.w + 2 * o.padding.v + 2 * o.shadowBlur + Abs(o.shadowOffsetY)
         /\ plan.canvasHeight =
              d.h + o.titleBarHeight + 2 * o.padding.v + 2 * o.shadowBlur + Abs(o.shadowOffsetY)
         /\ jobs[f].bg.w = plan.canvasWidth /\ jobs[f].bg.h = plan.canvasHeight
         /\ (/\ d = [w |-> 1000, h |-> 700]
             /\ o.padding.v = 80 /\ o.titleBarHeight = 32
             /\ o.shadowBlur = 30 /\ o.shadowOffsetY = 20)
              => /\ plan.framedHeight = 732 /\ plan.shadowPadding = 80
                 /\ plan.canvasWidth = 1240 /\ plan.canvasHeight = 972

\* the 1000x700 image with the defaults, its background built at 1240x972
C9_Witness ==
  \E f \in SrcFiles :
    /\ cfg.variant = "shadow" /\ "background" \in jobs[f].made
    /\ jobs[f].dims = [w |-> 1000, h |-> 700]
    /\ jobs[f].o.padding = Num(80) /\ jobs[f].o.titleBarHeight = 32
    /\ jobs[f].o.shadowBlur = 30 /\ jobs[f].o.shadowOffsetY = 20
    /\ jobs[f].bg.w = 1240 /\ jobs[f].bg.h = 972

\* C10: with a non-negative padding, a blur of at least one pixel (a blur
\* the image library takes as a sigma) and any shadow offsets, the shadow
\* layer placed at its rounded offset lies inside the canvas.
C10_ShadowInsideCanvas ==
  \A f \in SrcFiles :
    (/\ cfg.variant = "shadow" /\ "shadow" \in jobs[f].made
     /\ IsNum(jobs[f].o.padding) /\ jobs[f].o.padding.v >= 0
     /\ jobs[f].o.shadowBlur >= 1) =>
      LET at == Placement(cfg.variant, jobs[f].plan).shadow
      IN /\ at.left >= 0
         /\ at.top >= 0
         /\ at.left + jobs[f].shadow.w <= jobs[f].plan.canvasWidth
         /\ at.top + jobs[f].shadow.h <= jobs[f].plan.canvasHeight

\* C11: the background comes from one source chosen by priority: a supplied
\* background image wins over any preset; without an image a specified
\* preset is used; the default gradient #2d3436 -> #636e72 is used only when
\* neither an image nor a preset was specified.
C11_BackgroundPriority ==
  \A f \in SrcFiles :
    jobs[f].bg.branch # "none" =>
      LET o == jobs[f].o
          bg == jobs[f].bg
      IN /\ o.backgroundImage # "" => bg.branch = "image"
         /\ (o.backgroundImage = "" /\ o.backgroundPreset # "")
              => bg.branch \in {"preset", "auto"}
         /\ bg.branch = "default"
              => /\ o.backgroundImage = "" /\ o.backgroundPreset = ""
                 /\ bg.colours = <<gradientStartDefault, gradientEndDefault>>

\* the pixels of a mask the statements below look at: its four corners, its
\* centre, and the diagonals of the four corner blocks
SamplePixels(m) ==
  {<<0, 0>>, <<m.w - 1, 0>>, <<0, m.h - 1>>, <<m.w - 1, m.h - 1>>,
   <<m.w \div 2, m.h \div 2>>}
    \cup {<<k, k>> : k \in 0..(Min(m.r, Min(m.w, m.h)) - 1)}
    \cup {<<m.w - 1 - k, k>> : k \in 0..(Min(m.r, Min(m.w, m.h)) - 1)}
    \cup {<<k, m.h - 1 - k>> : k \in 0..(Min(m.r, Min(m.w, m.h)) - 1)}
    \cup {<<m.w - 1 - k, m.h - 1 - k>> : k \in 0..(Min(m.r, Min(m.w, m.h)) - 1)}

\* C12: the mask has the screenshot's pixel dimensions; for a screenshot at
\* least 2 * cornerRadius wide and tall its top corner blocks are opaque
\* (square top edge), the pixels of its bottom corner blocks are opaque
\* exactly when their centre is within the arc, so that the bottom corner
\* pixels are transparent once the radius puts them outside the arc (radius
\* 4 and above; 100x100 with radius 10); the left and right halves mirror
\* each other; and the masked screenshot keeps a pixel only where the
\* screenshot has one and the mask is opaque.  (The mask is looked at when
\* it has just been rendered, the masked screenshot when it has just been
\* produced; neither changes afterwards.)
C12_MaskBottomRounded ==
  \A f \in SrcFiles :
    "mask" \in jobs[f].made =>
      LET m == jobs[f].mask
      IN /\ m.w = jobs[f].dims.w /\ m.h = jobs[f].dims.h
         /\ m.r = jobs[f].o.cornerRadius
         /\ (jobs[f].pc = "rounded" /\ m.w >= 2 * m.r /\ m.h >= 2 * m.r) =>
              /\ MaskOpaque(m, 0, 0) /\ MaskOpaque(m, m.w - 1, 0)
              /\ MaskOpaque(m, m.w \div 2, m.h \div 2)
              /\ \A k \in 0..(m.r - 1) :
                   /\ MaskOpaque(m, k, k) /\ MaskOpaque(m, m.w - 1 - k, k)
                   /\ MaskOpaque(m, k, m.h - 1 - k)
                        = (2 * (2 * m.r - (2 * k + 1)) * (2 * m.r - (2 * k + 1))
                             <= 4 * m.r * m.r)
                   /\ MaskOpaque(m, m.w - 1 - k, m.h - 1 - k) = MaskOpaque(m, k, m.h - 1 - k)
              /\ m.r >= 4 => /\ ~MaskOpaque(m, 0, m.h - 1)
                             /\ ~MaskOpaque(m, m.w - 1, m.h - 1)
         /\ jobs[f].pc = "tofile" =>
              \A p \in SamplePixels(m) : \A a \in BOOLEAN :
                roundedScreenshot(m, a, p[1], p[2]) = (a /\ MaskOpaque(m, p[1], p[2]))
         /\ (jobs[f].pc = "tofile" /\ m.w >= 2 * m.r /\ m.h >= 2 * m.r /\ m.r >= 4) =>
              /\ roundedScreenshot(m, TRUE, 0, 0)
              /\ roundedScreenshot(m, TRUE, m.w - 1, 0)
              /\ ~roundedScreenshot(m, TRUE, 0, m.h - 1)
              /\ ~roundedScreenshot(m, TRUE, m.w - 1, m.h - 1)

\* the 100x100 screenshot masked with radius 10: square top, rounded bottom
C12_Witness ==
  \E f \in SrcFiles :
    /\ "screenshot" \in jobs[f].made
    /\ jobs[f].mask = cornerMask(100, 100, 10)
    /\ MaskOpaque(jobs[f].mask, 0, 0) /\ MaskOpaque(jobs[f].mask, 99, 0)
    /\ ~MaskOpaque(jobs[f].mask, 0, 99) /\ ~MaskOpaque(jobs[f].mask, 99, 99)
    /\ MaskOpaque(jobs[f].mask, 3, 96)

\* C13: listing the presets is a pure query: every call of listPresets
\* returned "auto" followed by the catalog names in the order of the source,
\* any two calls returned the same list, and whatever listings, compositions
\* and failed preset lookups have happened, the catalog is the one the
\* program started with and a listing made now returns that same list.
C13_ListingIsPure ==
  /\ catalog = InitialCatalog
  /\ listPresets = <<"auto">> \o InitialCatalog
  /\ \A i \in 1..Len(listed) :
       /\ listed[i] = <<"auto", "sunset", "sunrise", "peach", "ocean", "sky", "northern",
                        "charcoal", "midnight", "space", "neon", "fire", "aurora",
                        "lavender", "mint", "rose">>
       /\ \A j \in 1..Len(listed) : listed[j] = listed[i]
       /\ listed[i] = listPresets

\* two listings around a composition whose preset lookup failed
C13_Witness ==
  /\ Len(listed) = 2
  /\ listed[1] = listed[2]
  /\ \E f \in SrcFiles :
       /\ jobs[f].failedAt = "background"
       /\ jobs[f].o.backgroundPreset = "constructor"

\* the output of job f is in place, written by f
WrittenBy(f) == out[OutputPath(f)].state = "written" /\ out[OutputPath(f)].by = f

C15_OneWatcher ==
  [][cfg.mode = "tray" =>
       /\ (~trayReady /\ trayReady') => (watcher' /\ liveWatchers' = 1)
       /\ ClickToggle => /\ watcher' = ~watcher
                         /\ liveWatchers' = IF watcher THEN 0 ELSE 1
       /\ ClickQuit => (~watcher' /\ liveWatchers' = 0 /\ exit' = "exit0")
       /\ liveWatchers' \in {0, 1}
       /\ watcher' = (liveWatchers' = 1)
       /\ ~trayReady' => ~watcher'
       /\ startWatching(TRUE, 1) = <<TRUE, 1>>
       /\ stopWatching(FALSE, 0) = <<FALSE, 0>>]_vars

\* a tray that watched, composed a file, was stopped by a click, and was
\* then quit while not watching
C15_Witness ==
  /\ cfg.mode = "tray" /\ trayReady
  /\ ~watcher /\ liveWatchers = 0
  /\ processedCount = 1
  /\ exit = "exit0"
  /\ \E f \in SrcFiles : orig[f] = "present" /\ jobs[f].pc = "idle"

\* the files whose composition completed
ComposedFiles == {f \in SrcFiles : jobs[f].composed}

\* C16: in tray mode the processed count is the number of compositions that
\* completed since the tray started, in every state and under every
\* interleaving of the jobs; a step raises it by one exactly when a
\* composition completes in that step, and no step, the clicks that stop and
\* restart watching included, lowers it; skipped and failed files are not
\* counted.
C16_ProcessedCount ==
  /\ [](cfg.mode = "tray" =>
          /\ processedCount = Cardinality(ComposedFiles)
          /\ \A f \in SrcFiles :
               (jobs[f].pc = "skipped" \/ (jobs[f].pc = "failed" /\ jobs[f].failedAt \in EarlierSteps \cup {"tofile"}))
                 => f \notin ComposedFiles)
  /\ [][cfg.mode = "tray" =>
          /\ processedCount' >= processedCount
          /\ processedCount' =
               processedCount + Cardinality({f \in SrcFiles : ~jobs[f].composed /\ jobs'[f].composed})
          /\ (ClickToggle \/ ClickQuit \/ TrayBecomesReady) => processedCount' = processedCount]_vars

\* one file composed and counted, another failed and not counted, and the
\* watcher stopped since
C16_Witness ==
  /\ cfg.mode = "tray" /\ trayReady /\ ~watcher
  /\ processedCount = 1
  /\ \E f, g \in SrcFiles :
       /\ jobs[f].composed /\ jobs[f].pc = "done"
       /\ jobs[g].pc = "failed" /\ ~jobs[g].composed

\* C17: for every configuration with integer options, in both variants, the
\* place composite() is given for the screenshot is titleBarHeight below
\* the place given for the frame and at the same horizontal position, after
\* Math.round, also when the frame offset is a half pixel or negative; the
\* picture written carries these places.
C17_ScreenshotUnderTitleBar ==
  \A f \in SrcFiles :
    ("dimensions" \in jobs[f].made /\ ~jobs[f].plan.nan) =>
      LET at == Placement(cfg.variant, jobs[f].plan)
      IN /\ at.screenshot.top - at.frame.top = jobs[f].o.titleBarHeight
         /\ at.screenshot.left = at.frame.left
         /\ WrittenBy(f) =>
              /\ out[OutputPath(f)].image.at.screenshot.top
                   - out[OutputPath(f)].image.at.frame.top = jobs[f].o.titleBarHeight
              /\ out[OutputPath(f)].image.at.screenshot.left
                   = out[OutputPath(f)].image.at.frame.left

\* a picture written with an odd shadow offset: the frame offset is a half
\* pixel and is rounded
C17_Witness ==
  \E f \in SrcFiles :
    /\ WrittenBy(f) /\ cfg.variant = "shadow"
    /\ jobs[f].o.shadowOffsetY = 1
    /\ jobs[f].plan.frameY2 % 2 = 1
    /\ jobs[f].o.titleBarHeight = 1
    /\ out[OutputPath(f)].image.at.screenshot.top
         = out[OutputPath(f)].image.at.frame.top + 1

\* C18: in both variants, a composition beautify goes on with (it has
\* created the background at the canvas size) has a canvas at least as wide
\* and as high as the framed screenshot, and the frame placed at its
\* rounded offset lies inside the canvas.
C18_CanvasHoldsFrame ==
  \A f \in SrcFiles :
    ("background" \in jobs[f].made /\ ~jobs[f].plan.nan) =>
      LET plan == jobs[f].plan
          at == Placement(cfg.variant, plan).frame
      IN /\ plan.canvasWidth >= plan.framedWidth
         /\ plan.canvasHeight >= plan.framedHeight
         /\ at.left >= 0 /\ at.top >= 0
         /\ at.left + plan.framedWidth <= plan.canvasWidth
         /\ at.top + plan.framedHeight <= plan.canvasHeight

RECURSIVE SumCounts(_)
SumCounts(colorCounts) ==
  IF colorCounts = <<>> THEN 0 ELSE Head(colorCounts).count + SumCounts(Tail(colorCounts))

\* the pixels of data that fall in the bucket with this key
PixelsIn(data, key) ==
  {i \in 1..Len(data) : <<Quantize(data[i].r), Quantize(data[i].g), Quantize(data[i].b)>> = key}

Uniform(data) == \A i \in 1..Len(data) : data[i] = data[1]

\* C19: when extractDominantColor has analysed the sampled pixels, every
\* bucket counts the pixels that quantise to it, the counts add up to the
\* number of pixels, and the dominant colour is a bucket that no bucket
\* outnumbers; for pixels all of one colour the dominant bucket is within
\* less than 32 of that colour in every channel (as quantising moves any
\* channel value by at most 16); and pixels all #808080 are classified
\* neutral.
C19_DominantIsMode ==
  analysis.pc = "done" =>
    LET data == analysis.data
        cc == analysis.colorCounts
        dom == analysis.dominant
    IN /\ analysis.pixelCount = Len(data)
       /\ SumCounts(cc) = Len(data)
       /\ \A i \in 1..Len(cc) :
            /\ cc[i].count = Cardinality(PixelsIn(data, cc[i].key))
            /\ cc[i].count <= dom.count
            /\ \A j \in 1..Len(cc) : cc[j].key = cc[i].key => j = i
       /\ \E i \in 1..Len(cc) : cc[i] = dom
       /\ Uniform(data) =>
            /\ dom.count = Len(data)
            /\ Abs(dom.r - data[1].r) < 32
            /\ Abs(dom.g - data[1].g) < 32
            /\ Abs(dom.b - data[1].b) < 32
       /\ (\A i \in 1..Len(data) : data[i] = Grey808080) =>
            /\ dom.key = <<128, 128, 128>>
            /\ analysis.isNeutral
       /\ \A v \in 0..255 : Abs(Quantize(v) - v) <= 16

\* a red pixel between two #808080 pixels: grey is the dominant bucket
C19_Witness ==
  /\ analysis.pc = "done"
  /\ Len(analysis.data) = 3
  /\ analysis.data[1] = Grey808080 /\ analysis.data[3] = Grey808080
  /\ analysis.data[2] = [r |-> 255, g |-> 0, b |-> 0]
  /\ Len(analysis.colorCounts) = 2
  /\ analysis.dominant.key = <<128, 128, 128>> /\ analysis.dominant.count = 2

RECURSIVE SumSaturation(_)
SumSaturation(data) ==
  IF data = <<>> THEN Frac(0, 1)
  ELSE FracAdd(rgbToHslS(Head(data)), SumSaturation(Tail(data)))

\* C20: the analysed image is classified neutral exactly when the average
\* saturation of its sampled pixels is below 25 percent, or the saturation
\* of the dominant bucket is below 15 percent, or the difference between the
\* largest and the smallest channel of the dominant bucket is below 40; it
\* is colourful exactly when none of the three holds.
C20_NeutralSignals ==
  analysis.pc = "done" =>
    LET total == SumSaturation(analysis.data)
        dom == analysis.dominant
        avgLow == total.n < 25 * Len(analysis.data) * total.d
        domLow == FracBelow(rgbToHslS(dom), 15)
        spreadLow == Max3(dom.r, dom.g, dom.b) - Min3(dom.r, dom.g, dom.b) < 40
    IN /\ analysis.isNeutral = (avgLow \/ domLow \/ spreadLow)
       /\ (~analysis.isNeutral) = (~avgLow /\ ~domLow /\ ~spreadLow)
       /\ FracBelow(analysis.avgSaturation, 25) = avgLow
       /\ FracBelow(analysis.s, 15) = domLow
       /\ (analysis.rgbRange < 40) = spreadLow

\* neutral by the average alone: a dull rose pixel ahead of a grey one (the
\* rose bucket is dominant, saturated and spread; the average is low)
C20_Witness ==
  /\ analysis.pc = "done"
  /\ analysis.data = <<[r |-> 160, g |-> 96, b |-> 96], Grey808080>>
  /\ analysis.isNeutral
  /\ FracBelow(analysis.avgSaturation, 25)
  /\ ~FracBelow(analysis.s, 15)
  /\ analysis.rgbRange = 64

(***************************************************************************)
(* C21.  The gradient endpoints of extractDominantColor.                    *)
(***************************************************************************)
\* x is the smaller (the larger) of a and b
IsMinOf(x, a, b) == ~FracLess(a, x) /\ ~FracLess(b, x) /\ (x = a \/ x = b)
IsMaxOf(x, a, b) == ~FracLess(x, a) /\ ~FracLess(x, b) /\ (x = a \/ x = b)

\* color1Hsl and color2Hsl are the triples the two branches prescribe
EndpointFormulas ==
  LET hsl == rgbToHsl(analysis.dominant)
      c1 == analysis.color1Hsl
      c2 == analysis.color2Hsl
  IN IF analysis.isNeutral
     THEN /\ c1.h = hsl.h /\ c1.s = FracOf(0)
          /\ IsMinOf(c1.l, FracPlus(hsl.l, FracOf(8)), FracOf(55))
          /\ c2.h = hsl.h /\ c2.s = FracOf(0)
          /\ IsMaxOf(c2.l, FracMinus(hsl.l, FracOf(5)), FracOf(20))
     ELSE /\ c1.h = hsl.h
          /\ IsMinOf(c1.s, FracPlus(hsl.s, FracOf(5)), FracOf(60))
          /\ IsMinOf(c1.l, FracPlus(hsl.l, FracOf(10)), FracOf(60))
          /\ \E k \in {0, 1} : c2.h = FracMinus(FracPlus(hsl.h, FracOf(15)), FracOf(360 * k))
          /\ ~FracLess(c2.h, FracOf(0)) /\ FracLess(c2.h, FracOf(360))
          /\ c2.s = hsl.s
          /\ IsMaxOf(c2.l, FracMinus(hsl.l, FracOf(5)), FracOf(25))

\* the cap of endpoint 1 and the floor of endpoint 2 in the branch taken
LightnessCap == IF analysis.isNeutral THEN FracOf(55) ELSE FracOf(60)
LightnessFloor == IF analysis.isNeutral THEN FracOf(20) ELSE FracOf(25)

GradientBuilt == gradient.pc \in {"rendering", "done"}
BuiltAngle == Default(PresetEntry(cfg.preset).angle, DefaultAngle).v

\* the axis is centred on the box and the stops are spread evenly over it
AxisCentredStopsEven ==
  LET n == Len(gradient.stops)
  IN /\ gradient.axis.x1 + gradient.axis.x2 = 100
     /\ gradient.axis.y1 + gradient.axis.y2 = 100
     /\ n >= 2
     /\ n = Len(PresetEntry(cfg.preset).colors)
     /\ gradient.stops[1].offset = FracOf(0)
     /\ gradient.stops[n].offset = FracOf(100)
     /\ \A i \in 1..n :
          /\ gradient.stops[i].color = PresetEntry(cfg.preset).colors[i]
          /\ gradient.stops[i].offset.n * (n - 1) = 100 * (i - 1) * gradient.stops[i].offset.d

\* the four right angles give the axes the claim lists
RightAngleAxes ==
  /\ BuiltAngle = 0 => gradient.axis = [x1 |-> 0, y1 |-> 50, x2 |-> 100, y2 |-> 50]
  /\ BuiltAngle = 90 => gradient.axis = [x1 |-> 50, y1 |-> 0, x2 |-> 50, y2 |-> 100]
  /\ BuiltAngle = 180 => gradient.axis = [x1 |-> 100, y1 |-> 50, x2 |-> 0, y2 |-> 50]
  /\ BuiltAngle = 270 => gradient.axis = [x1 |-> 50, y1 |-> 100, x2 |-> 50, y2 |-> 0]

\* |v - w| <= Micro / 2, v a whole percent and w in millionths
NearestPercent(v, w) == 2 * Abs(v * Micro - w) <= Micro

\* C22 (as amended): the ends of the axis are 50 -/+ 50 cos(a) and
\* 50 -/+ 50 sin(a) rounded to the nearest whole percent; angle 0 gives
\* (0,50)->(100,50), 90 gives (50,0)->(50,100), 180 gives (100,50)->(0,50),
\* 270 gives (50,100)->(50,0); x1 + x2 = 100 and y1 + y2 = 100; every preset
\* of the catalog has at least two colours, colour i at stop i/(n-1), the
\* first at 0% and the last at 100%.
C22_AxisRoundedToPercent ==
  GradientBuilt =>
    /\ NearestPercent(gradient.axis.x1, 50 * Micro - Cos50(BuiltAngle))
    /\ NearestPercent(gradient.axis.y1, 50 * Micro - Sin50(BuiltAngle))
    /\ NearestPercent(gradient.axis.x2, 50 * Micro + Cos50(BuiltAngle))
    /\ NearestPercent(gradient.axis.y2, 50 * Micro + Sin50(BuiltAngle))
    /\ RightAngleAxes
    /\ AxisCentredStopsEven

\* a preset of the catalog (angle 135, three colours) was built: its axis
\* runs (85,15)->(15,85) and its middle stop is at 50%
C22_Witness ==
  /\ gradient.pc = "done"
  /\ cfg.preset = "space"
  /\ gradient.axis = [x1 |-> 85, y1 |-> 15, x2 |-> 15, y2 |-> 85]
  /\ gradient.stops[2].offset = FracOf(50)

\* C22 as stated: the ends of the axis are exactly 50 -/+ 50 cos(a) and
\* 50 -/+ 50 sin(a) percent, with the listed right-angle cases, the centred
\* axis and the evenly spread stops
C22_AxisExact ==
  GradientBuilt =>
    /\ gradient.axis.x1 * Micro = 50 * Micro - Cos50(BuiltAngle)
    /\ gradient.axis.y1 * Micro = 50 * Micro - Sin50(BuiltAngle)
    /\ gradient.axis.x2 * Micro = 50 * Micro + Cos50(BuiltAngle)
    /\ gradient.axis.y2 * Micro = 50 * Micro + Sin50(BuiltAngle)
    /\ RightAngleAxes
    /\ AxisCentredStopsEven

(***************************************************************************)
(* C23.  rgbToHsl followed by hslToRgb.                                     *)
(***************************************************************************)
\* C23: a colour with channels in 0..255 taken through rgbToHsl and back
\* through hslToRgb comes back with every channel within 1 of the original.
C23_RoundTripWithinOne ==
  conversion.pc = "done" =>
    /\ Abs(conversion.back.r - conversion.rgb.r) <= 1
    /\ Abs(conversion.back.g - conversion.rgb.g) <= 1
    /\ Abs(conversion.back.b - conversion.rgb.b) <= 1

\* a saturated colour, for which hue2rgb wraps a negative t on the way back,
\* has made the round trip
C23_Witness ==
  /\ conversion.pc = "done"
  /\ conversion.rgb = [r |-> 254, g |-> 1, b |-> 127]
  /\ conversion.hsl.s.n # 0
  /\ Abs(conversion.back.b - conversion.rgb.b) <= 1

(***************************************************************************)
(* C24.  What the tool produces is not beautified again.                    *)
(***************************************************************************)
\* the files a user put into the watched directory
SourceFilesDiscovered == {f \in SrcFiles : orig[f] \in {"present", "deleted"}}

\* C24: in watch and tray mode a file is composed only if it has an image
\* extension and no "_beautified" in its base name; every output is named
\* <source base name>_beautified.png; a file the tool produced inside the
\* watched directory is reported by the watcher and never composed; and
\* there are at most as many compositions as source files discovered.
C24_OutputsNotRecomposed ==
  cfg.mode \in {"watch", "tray"} =>
    /\ \A f \in SrcFiles :
         Started(f) =>
           /\ f.ext \in {".png", ".PNG", ".jpg", ".JPG", ".jpeg", ".webp", ".gif"}
           /\ \A i \in 1..Len(f.stem) : f.stem[i] # "_beautified"
    /\ \A p \in OutPaths :
         out[p].state # "absent" =>
           /\ p.ext = ".png"
           /\ p.stem = out[p].by.stem \o <<"_beautified">>
    /\ \A f \in SrcFiles : orig[f] = "produced" => ~Started(f)
    /\ Cardinality(ComposedFiles) <= Cardinality(SourceFilesDiscovered)

\* the output directory is the watched directory: shot.png was composed, the
\* watcher reported shot_beautified.png and processFile skipped it
C24_Witness ==
  /\ cfg.mode \in {"watch", "tray"}
  /\ cfg.output = WatchedDir
  /\ jobs[Shot].composed
  /\ out[OutputPath(Shot)].state = "written"
  /\ orig[ProducedFile(Shot)] = "produced"
  /\ jobs[ProducedFile(Shot)].pc = "skipped"

(***************************************************************************)
(* C25.  Jobs and their destinations.                                       *)
(***************************************************************************)
\* C25: two distinct source files the watcher discovered and handed to
\* beautify have distinct destination paths, and the destination of a
\* composed file holds the output of that file, not of another.
C25_DistinctDestinations ==
  cfg.mode \in {"watch", "tray"} =>
    /\ \A f, g \in SrcFiles :
         (f # g /\ Started(f) /\ Started(g)) => OutputPath(f) # OutputPath(g)
    /\ \A f \in SrcFiles :
         jobs[f].composed => out[OutputPath(f)].by = f

(***************************************************************************)
(* C26.  The colours extractDominantColor returns.                          *)
(***************************************************************************)
IsChannel(v) == v \in 0..255
IsHexColour(str) ==
  /\ Len(str) = 7
  /\ str[1] = "#"
  /\ \A i \in 2..7 : \E d \in 1..16 : str[i] = HexDigits[d]

\* C26: for every analysed image every channel of every bucket and of both
\* converted endpoints is an integer in 0..255, and each of the two returned
\* strings is "#" followed by exactly six hexadecimal digits.
C26_WellFormedColours ==
  analysis.pc = "done" =>
    /\ \A i \in 1..Len(analysis.colorCounts) :
         /\ IsChannel(analysis.colorCounts[i].r)
         /\ IsChannel(analysis.colorCounts[i].g)
         /\ IsChannel(analysis.colorCounts[i].b)
    /\ IsChannel(analysis.color1.r) /\ IsChannel(analysis.color1.g)
    /\ IsChannel(analysis.color1.b)
    /\ IsChannel(analysis.color2.r) /\ IsChannel(analysis.color2.g)
    /\ IsChannel(analysis.color2.b)
    /\ Len(analysis.result) = 2
    /\ IsHexColour(analysis.result[1])
    /\ IsHexColour(analysis.result[2])

(***************************************************************************)
(* C27.  The padding the watching modes hand to beautify.                   *)
(***************************************************************************)
\* the number the user wrote after --padding
PaddingGiven == parseInt(cfg.paddingArg.text)

\* a job that is inside beautify or has left it
InBeautify(f) == jobs[f].pc \notin {"idle", "skipped", "killed"}

\* C27: in watch mode and in tray mode alike beautify is invoked with the
\* padding the user gave with --padding, zero included, and with 80 only when
\* the option is omitted: no default is applied a second time on the way.
C27_PaddingAsGiven ==
  \A f \in SrcFiles :
    (cfg.mode \in {"watch", "tray"} /\ InBeautify(f)) =>
      /\ ~cfg.paddingArg.given => jobs[f].o.padding = Num(80)
      /\ (cfg.paddingArg.given /\ IsNum(PaddingGiven)) => jobs[f].o.padding = PaddingGiven

====
